---- MODULE Spec2Model ----
(***************************************************************************)
(* Ride-share dispatch engine (lib/ride-share-system.ts): the city graph   *)
(* with Dijkstra over a binary min-heap, the entity stores, the trip state *)
(* machine, driver selection, and the snapshot-based operation log with    *)
(* rollback.                                                               *)
(*                                                                         *)
(* Units.  Road weights of the sample city are whole numbers, so distances *)
(* are integers.  Money is kept in hundredths (Math.round(cost*100)/100 is *)
(* the integer Math.round(cost*100)).  Durations are minutes:              *)
(* (distance / 30) * 60 is 2 * distance.  Ids "D-0001", "R-0001", "T-0001" *)
(* and "OP-000001" are the counter values they are formatted from.         *)
(***************************************************************************)
EXTENDS Integers, Sequences, FiniteSets, TLC

\* ---------------------------------------------------------------- bounds

MaxDrivers == 2
MaxRiders == 1
MaxTrips == 2
MaxOps == 6
MaxK == 3
\* City under construction: addNode calls and roads it is let to hold.
MaxNodeAdds == 3
MaxEdges == 3
\* RideShareSystem instances the module is let to construct.
MaxInstances == 2
\* Operations one driver, one rider and one trip are let to log when a trip
\* is taken to completion after rollbacks.
MaxRerunOps == 8

\* ------------------------------------------------------------ constants

\* null / undefined where an id, a Date or a number is expected: ids start
\* at 1 and the clock at 0.
NULL == -1
\* An omitted array argument (undefined where an id list is expected).
Omitted == <<NULL>>
\* undefined where a zone name is expected.
NoZone == "undefined"
\* null where a node id is expected.
NoNode == "null"
\* null where a createdEntityType is expected.
NoType == "null"
Infinity == 1000000

BASE_FARE == 5
PER_KM_RATE == 2
\* CROSS_ZONE_PENALTY = 1.5 = PENALTY_NUM / PENALTY_DEN
PENALTY_NUM == 3
PENALTY_DEN == 2
\* (distance / SPEED) * MINUTES
SPEED == 30
MINUTES == 60

\* Mutant: an ongoing trip may be cancelled.
VALID_TRANSITIONS_cancelOngoing ==
  [requested |-> {"assigned", "cancelled"},
   assigned  |-> {"ongoing", "cancelled"},
   ongoing   |-> {"completed", "cancelled"},
   completed |-> {},
   cancelled |-> {}]

\* Mutant: a cancelled trip may be started.
VALID_TRANSITIONS_startCancelled ==
  [requested |-> {"assigned", "cancelled"},
   assigned  |-> {"ongoing", "cancelled"},
   ongoing   |-> {"completed"},
   completed |-> {},
   cancelled |-> {"ongoing"}]

VALID_TRANSITIONS ==
  [requested |-> {"assigned", "cancelled"},
   assigned  |-> {"ongoing", "cancelled"},
   ongoing   |-> {"completed"},
   completed |-> {},
   cancelled |-> {}]

TripStates == {"requested", "assigned", "ongoing", "completed", "cancelled"}

\* ---------------------------------------------------------------- helpers

Range(s) == {s[i] : i \in 1..Len(s)}

\* Array.prototype.filter over a sequence, order kept.
RECURSIVE FilterSeq(_, _)
FilterSeq(s, keep) ==
  IF s = <<>> THEN <<>>
  ELSE IF Head(s) \in keep THEN <<Head(s)>> \o FilterSeq(Tail(s), keep)
       ELSE FilterSeq(Tail(s), keep)

\* ------------------------------------------------------------- min heap
\* The heap is the array `heap` of [distance, nodeId] pairs; the code's
\* index i is i + 1 here.  `positions` maps a node to its index in `heap`
\* and is kept in step with it by insert/swap/extractMin, so contains(n)
\* is "n is in the heap" and positions.get(n) is its index.

parent(i) == (i - 1) \div 2
leftChild(i) == 2 * i + 1
rightChild(i) == 2 * i + 2

swap(heap, i, j) ==
  [heap EXCEPT ![i + 1] = heap[j + 1], ![j + 1] = heap[i + 1]]

RECURSIVE heapifyUp(_, _)
heapifyUp(heap, i) ==
  IF i > 0 /\ heap[i + 1][1] < heap[parent(i) + 1][1]
  THEN heapifyUp(swap(heap, i, parent(i)), parent(i))
  ELSE heap

RECURSIVE heapifyDown(_, _)
heapifyDown(heap, i) ==
  LET left == leftChild(i)
      right == rightChild(i)
      s1 == IF left < Len(heap) /\ heap[left + 1][1] < heap[i + 1][1]
            THEN left ELSE i
      smallest == IF right < Len(heap) /\ heap[right + 1][1] < heap[s1 + 1][1]
                  THEN right ELSE s1
  IN IF smallest # i THEN heapifyDown(swap(heap, i, smallest), smallest)
     ELSE heap

insert(heap, distance, nodeId) ==
  heapifyUp(Append(heap, <<distance, nodeId>>), Len(heap))

\* extractMin: the heap that remains (the minimum itself is heap[1]).
extractMin(heap) ==
  IF Len(heap) > 1
  THEN heapifyDown([SubSeq(heap, 1, Len(heap) - 1) EXCEPT ![1] = heap[Len(heap)]], 0)
  ELSE <<>>

contains(heap, nodeId) == \E k \in 1..Len(heap) : heap[k][2] = nodeId

positionOf(heap, nodeId) == (CHOOSE k \in 1..Len(heap) : heap[k][2] = nodeId) - 1

decreaseKey(heap, nodeId, newDistance) ==
  IF ~contains(heap, nodeId) THEN heap
  ELSE LET i == positionOf(heap, nodeId)
       IN IF newDistance < heap[i + 1][1]
          THEN heapifyUp([heap EXCEPT ![i + 1] = <<newDistance, nodeId>>], i)
          ELSE heap

\* ----------------------------------------------------------- city graph
\* A City is [nodeIds: the keys of `nodes` in insertion order,
\*            zoneOf: node id -> zone, adjacency: node id -> <<neighbor, weight>>*,
\*            zones: zone -> node id*, edges: <<from, to, distance>>*].

EmptyCity ==
  [nodeIds |-> <<>>, zoneOf |-> <<>>, adjacency |-> <<>>, zones |-> <<>>,
   edges |-> <<>>]

\* No check is made: a second addNode of an id overwrites the node, empties
\* its adjacency list and pushes the id onto the zone's list once more.
addNode(c, nodeId, zone) ==
  [c EXCEPT
     !.nodeIds = IF nodeId \in Range(c.nodeIds) THEN @ ELSE Append(@, nodeId),
     !.zoneOf = [n \in DOMAIN c.zoneOf \cup {nodeId} |->
                   IF n = nodeId THEN zone ELSE c.zoneOf[n]],
     !.adjacency = [n \in DOMAIN c.adjacency \cup {nodeId} |->
                   IF n = nodeId THEN <<>> ELSE c.adjacency[n]],
     !.zones = [z \in DOMAIN c.zones \cup {zone} |->
                   IF z = zone
                   THEN Append(IF z \in DOMAIN c.zones THEN c.zones[z] ELSE <<>>, nodeId)
                   ELSE c.zones[z]]]

\* adjacency.get(node)!.push(...) of a node that has no adjacency list is a
\* TypeError: the call ends there, with what it had written before.
addEdgeThrows(c, fromNode, toNode) ==
  fromNode \notin DOMAIN c.adjacency \/ toNode \notin DOMAIN c.adjacency

\* bidirectional defaults to true and no caller passes it.  The city as the
\* call leaves it, whether it returns or throws.
addEdge(c, fromNode, toNode, distance) ==
  IF fromNode \notin DOMAIN c.adjacency THEN c
  ELSE
    LET a1 == [c.adjacency EXCEPT ![fromNode] = Append(@, <<toNode, distance>>)]
        a2 == IF toNode \in DOMAIN a1
              THEN [a1 EXCEPT ![toNode] = Append(@, <<fromNode, distance>>)]
              ELSE a1
    IN [c EXCEPT !.adjacency = a2,
                 !.edges = Append(@, <<fromNode, toNode, distance>>)]

RECURSIVE addNodes(_, _)
addNodes(c, ns) ==
  IF ns = <<>> THEN c ELSE addNodes(addNode(c, Head(ns)[1], Head(ns)[2]), Tail(ns))

RECURSIVE addEdges(_, _)
addEdges(c, es) ==
  IF es = <<>> THEN c
  ELSE addEdges(addEdge(c, Head(es)[1], Head(es)[2], Head(es)[3]), Tail(es))

createSampleCity ==
  addEdges(
    addNodes(EmptyCity,
      << <<"A1", "Zone-A">>, <<"A2", "Zone-A">>, <<"A3", "Zone-A">>,
         <<"B1", "Zone-B">>, <<"B2", "Zone-B">>, <<"B3", "Zone-B">>,
         <<"C1", "Zone-C">>, <<"C2", "Zone-C">>, <<"M1", "Zone-M">> >>),
    << <<"A1", "A2", 5>>, <<"A2", "A3", 6>>, <<"A1", "A3", 10>>,
       <<"B1", "B2", 5>>, <<"B2", "B3", 4>>, <<"B1", "B3", 8>>,
       <<"C1", "C2", 6>>,
       <<"A2", "M1", 7>>, <<"B2", "M1", 7>>, <<"M1", "C1", 8>>,
       <<"A3", "C1", 6>>, <<"B3", "C2", 5>> >>)

getZone(c, nodeId) == IF nodeId \in DOMAIN c.zoneOf THEN c.zoneOf[nodeId] ELSE NoZone

\* The for-loop over the neighbors of currentNode, from index k on.
\* st = [distances, predecessors, visited, heap].
\* Mutant: a neighbor keeps the first distance it was reached with.
RECURSIVE relax_firstSeen(_, _, _, _, _)
relax_firstSeen(st, neighbors, k, currentDist, currentNode) ==
  IF k > Len(neighbors) THEN st
  ELSE
    LET neighbor == neighbors[k][1]
        newDist == currentDist + neighbors[k][2]
    IN IF neighbor \notin st.visited /\ neighbor \in DOMAIN st.distances
          /\ st.distances[neighbor] = Infinity
       THEN relax_firstSeen([st EXCEPT
                     !.distances[neighbor] = newDist,
                     !.predecessors[neighbor] = currentNode,
                     !.heap = insert(st.heap, newDist, neighbor)],
                  neighbors, k + 1, currentDist, currentNode)
       ELSE relax_firstSeen(st, neighbors, k + 1, currentDist, currentNode)

RECURSIVE relax(_, _, _, _, _)
relax(st, neighbors, k, currentDist, currentNode) ==
  IF k > Len(neighbors) THEN st
  ELSE
    LET neighbor == neighbors[k][1]
        weight == neighbors[k][2]
        newDist == currentDist + weight
    IN IF neighbor \in st.visited
       THEN relax(st, neighbors, k + 1, currentDist, currentNode)
       ELSE IF neighbor \in DOMAIN st.distances /\ newDist < st.distances[neighbor]
       THEN relax([st EXCEPT
                     !.distances[neighbor] = newDist,
                     !.predecessors[neighbor] = currentNode,
                     !.heap = IF contains(st.heap, neighbor)
                              THEN decreaseKey(st.heap, neighbor, newDist)
                              ELSE insert(st.heap, newDist, neighbor)],
                  neighbors, k + 1, currentDist, currentNode)
       ELSE relax(st, neighbors, k + 1, currentDist, currentNode)

\* The while-loop of shortestPath.
RECURSIVE dijkstraLoop(_, _, _)
dijkstraLoop(c, st, end) ==
  IF st.heap = <<>> THEN st
  ELSE
    LET currentDist == st.heap[1][1]
        currentNode == st.heap[1][2]
        popped == [st EXCEPT !.heap = extractMin(st.heap)]
    IN IF currentNode \in st.visited THEN dijkstraLoop(c, popped, end)
       ELSE
         LET seen == [popped EXCEPT !.visited = @ \cup {currentNode}]
         IN IF currentNode = end THEN seen
            ELSE dijkstraLoop(c,
                   relax(seen,
                         IF currentNode \in DOMAIN c.adjacency
                         THEN c.adjacency[currentNode] ELSE <<>>,
                         1, currentDist, currentNode),
                   end)

\* Mutant: the path is rebuilt by push, so it runs from the end to the start.
RECURSIVE buildPath_pushed(_, _, _)
buildPath_pushed(predecessors, current, path) ==
  IF current = NoNode THEN path
  ELSE buildPath_pushed(predecessors,
                 IF current \in DOMAIN predecessors THEN predecessors[current] ELSE NoNode,
                 path \o <<current>>)

\* The path rebuilt from the predecessors, by unshift.
RECURSIVE buildPath(_, _, _)
buildPath(predecessors, current, path) ==
  IF current = NoNode THEN path
  ELSE buildPath(predecessors,
                 IF current \in DOMAIN predecessors THEN predecessors[current] ELSE NoNode,
                 <<current>> \o path)

\* shortestPath(start, end) = <<path, distance>>.  For an end that is
\* neither a node nor the start, distances.get(end) is undefined, which is
\* not Infinity: the call returns <<end>> and undefined (NULL).
shortestPath(c, start, end) ==
  LET keys == Range(c.nodeIds) \cup {start}
      init == [distances |-> [n \in keys |-> IF n = start THEN 0 ELSE Infinity],
               predecessors |-> [n \in Range(c.nodeIds) |-> NoNode],
               visited |-> {},
               heap |-> insert(<<>>, 0, start)]
      fin == dijkstraLoop(c, init, end)
      distance == IF end \in keys THEN fin.distances[end] ELSE NULL
  IN IF distance = Infinity THEN << <<>>, Infinity >>
     ELSE << buildPath(fin.predecessors, end, <<>>), distance >>

calculateDistance(c, start, end) == shortestPath(c, start, end)[2]


\* The engine's city: set once by the constructor and never changed.
city == createSampleCity

\* ------------------------------------------------------------ inputs
\* The arguments the callers are let to pass.  Locations: a pickup in Zone-A
\* (A3) has the driver location A1 in its zone at distance 10 and C1 out of
\* it at distance 6; a pickup in Zone-B (B3) has both out of its zone, at
\* distances 23 and 11; X1 names no node.  Trips A3 -> A1 stay in one zone,
\* trips B3 -> A1 cross zones.

DriverName == "drv"
RiderName == "rdr"
NoSuchLocation == "X1"
DriverLocations == {"A1", "C1", NoSuchLocation}
RiderLocations == {"A3", NoSuchLocation}
PickupLocations == {"A3", "B3", NoSuchLocation}
DropoffLocations == {"A1", NoSuchLocation}
DriverIds == 1..MaxDrivers
RiderIds == 1..MaxRiders
TripIds == 1..MaxTrips
\* completeTrip's optional actualDuration: NULL is "not supplied".
SuppliedDuration == 7
Durations == {NULL, SuppliedDuration}
RollbackCounts == (0 - 1)..MaxK

\* ------------------------------------------------------------- state

VARIABLES
  drivers,            \* Map driverId -> Driver
  riders,             \* Map riderId -> Rider
  trips,              \* Map tripId -> Trip
  operationStack,     \* OperationRecord[]
  operationCounter,
  driverCounter,
  riderCounter,
  tripCounter,
  result,             \* how the last call ended: "ok" (it returned a value),
                      \* "none" (it returned null) or "error" (it threw)
  storesBefore,       \* history: the stores as they were when each record
                      \* of operationStack was pushed
  sharedHistory,      \* object identity: the <<operationId, riderId>> for
                      \* which the record's snapshot of the rider holds the
                      \* very tripHistory array the live rider holds
  graph,              \* a City: its nodes, adjacency, zones and edges
  lastRoute,          \* the last shortestPath call on graph and what it
                      \* returned; NoRoute once graph has changed since
  systemInstance      \* the module's singleton: NULL, or the n-th
                      \* RideShareSystem constructed, whose fields the
                      \* variables above are

vars == <<drivers, riders, trips, operationStack, operationCounter,
          driverCounter, riderCounter, tripCounter, result, storesBefore,
          sharedHistory, graph, lastRoute, systemInstance>>

cityVars == <<graph, lastRoute>>

\* getRideShareSystem(): the instance held, constructed first if there is
\* none.  Every caller of the engine obtains it by this call.
getRideShareSystem == IF systemInstance = NULL THEN 1 ELSE systemInstance

stores == <<drivers, riders, trips>>

\* new Date(): time is a logical value that advances with every operation
\* the engine logs, so each value read within one call is the count of the
\* operations logged before it.
now == operationCounter
counters == <<operationCounter, driverCounter, riderCounter, tripCounter>>

\* Array.from(map.keys()): ids are issued in increasing order and a rollback
\* deletes only the entity its record created, so insertion order is id order.
SortedSeq(S) ==
  [i \in 1..Cardinality(S) |-> CHOOSE x \in S : Cardinality({y \in S : y < x}) = i - 1]

Keys(map) == SortedSeq(DOMAIN map)

MapSet(map, id, v) == [k \in DOMAIN map \cup {id} |-> IF k = id THEN v ELSE map[k]]
MapDelete(map, id) == [k \in DOMAIN map \ {id} |-> map[k]]
EmptyMap == [k \in {} |-> NULL]

\* ---------------------------------------------------------- snapshots

createDriverSnapshot(driver) == driver
\* Mutant: the array is not copied; the same object is handed on.
spread_sameArray(array) == [items |-> array, sameObject |-> TRUE]

\* [...array]: a new array object with the same items.
spread(array) == [items |-> array, sameObject |-> FALSE]

createRiderSnapshot(rider) == [rider EXCEPT !.tripHistory = spread(@).items]
createTripSnapshot(trip) == [trip EXCEPT !.path = spread(@).items]

\* ids = Omitted is an omitted argument: every entity is captured.  An id with
\* no entity is skipped.
idsToSnapshot(map, ids) ==
  IF ids = Omitted THEN DOMAIN map ELSE Range(ids) \cap DOMAIN map

createSystemSnapshot(driverIds, riderIds, tripIds) ==
  [driverSnapshots |->
     [id \in idsToSnapshot(drivers, driverIds) |-> createDriverSnapshot(drivers[id])],
   riderSnapshots |->
     [id \in idsToSnapshot(riders, riderIds) |-> createRiderSnapshot(riders[id])],
   tripSnapshots |->
     [id \in idsToSnapshot(trips, tripIds) |-> createTripSnapshot(trips[id])],
   existingDriverIds |-> Keys(drivers),
   existingRiderIds |-> Keys(riders),
   existingTripIds |-> Keys(trips)]

OperationRecord(type, description, driverIds, riderIds, tripIds, createdEntityId, createdEntityType) ==
  [operationId |-> operationCounter + 1,
   operationType |-> type,
   timestamp |-> now,
   description |-> description,
   beforeSnapshot |-> createSystemSnapshot(driverIds, riderIds, tripIds),
   affectedDriverIds |-> IF driverIds = Omitted THEN <<>> ELSE driverIds,
   affectedRiderIds |-> IF riderIds = Omitted THEN <<>> ELSE riderIds,
   affectedTripIds |-> IF tripIds = Omitted THEN <<>> ELSE tripIds,
   createdEntityId |-> createdEntityId,
   createdEntityType |-> createdEntityType]

\* The riders whose tripHistory array the new record's snapshot shares with
\* the live rider: those captured without the array having been copied.
sharedBySnapshot(operation) ==
  {<<operation.operationId, id>> :
     id \in {r \in DOMAIN operation.beforeSnapshot.riderSnapshots :
               spread(riders[r].tripHistory).sameObject}}

\* rider.tripHistory.push(tripId), which completeTrip does after its record
\* is pushed, writes to the one array object the live rider holds: every
\* record whose snapshot holds that same object shows the new item too.
pushSeenBy(stack, shared, operation) ==
  IF operation.operationType # "complete_trip" THEN stack
  ELSE [k \in 1..Len(stack) |->
          LET riderId == operation.affectedRiderIds[1]
          IN IF <<stack[k].operationId, riderId>> \in shared
             THEN [stack[k] EXCEPT
                     !.beforeSnapshot.riderSnapshots[riderId].tripHistory =
                        Append(@, operation.affectedTripIds[1])]
             ELSE stack[k]]

\* logOperation: called before the caller changes any store.
logOperation(type, description, driverIds, riderIds, tripIds, createdEntityId, createdEntityType) ==
  LET operation == OperationRecord(type, description, driverIds, riderIds, tripIds,
                                   createdEntityId, createdEntityType)
      shared == sharedHistory \cup sharedBySnapshot(operation)
  IN /\ operationCounter' = operationCounter + 1
     /\ operationStack' = pushSeenBy(Append(operationStack, operation), shared, operation)
     /\ sharedHistory' = shared
     /\ storesBefore' = Append(storesBefore, stores)

\* Mutant: the id counter is advanced before the call validates and throws.
Throws_afterCounting ==
  /\ result' = "error"
  /\ driverCounter' = driverCounter + 1
  /\ UNCHANGED <<drivers, riders, trips, operationStack, operationCounter,
                 riderCounter, tripCounter, storesBefore, sharedHistory>>

\* A call that throws: nothing is assigned after the throw.
Throws ==
  /\ result' = "error"
  /\ UNCHANGED <<drivers, riders, trips, operationStack, counters, storesBefore, sharedHistory>>

\* A call that returns null without having changed anything.
ReturnsNull ==
  /\ result' = "none"
  /\ UNCHANGED <<drivers, riders, trips, operationStack, counters, storesBefore, sharedHistory>>

Returns == result' = "ok"


\* this.city.shortestPath / calculateDistance between nodes of the city.
\* The city never changes, so each pair is computed once.
RECURSIVE pathsFrom(_, _)
pathsFrom(start, ends) ==
  IF ends = <<>> THEN <<>>
  ELSE (Head(ends) :> shortestPath(city, start, Head(ends)))
       @@ pathsFrom(start, Tail(ends))

RECURSIVE pathsAmong(_)
pathsAmong(starts) ==
  IF starts = <<>> THEN <<>>
  ELSE (Head(starts) :> pathsFrom(Head(starts), city.nodeIds))
       @@ pathsAmong(Tail(starts))

cityPaths == pathsAmong(city.nodeIds)

cityShortestPath(start, end) == cityPaths[start][end]
cityDistance(start, end) == cityShortestPath(start, end)[2]

\* ------------------------------------------------------ driver selection

getAvailableDrivers ==
  FilterSeq(Keys(drivers), {d \in DOMAIN drivers : drivers[d].status = "available"})

\* The first loop of findBestDriver: best = <<bestDriver, bestDistance>>.
RECURSIVE sameZoneLoop(_, _, _)
sameZoneLoop(ds, pickupLocation, best) ==
  IF ds = <<>> THEN best
  ELSE LET distance == cityDistance(drivers[Head(ds)].currentLocation, pickupLocation)
       IN sameZoneLoop(Tail(ds), pickupLocation,
            IF distance < best[2] THEN <<Head(ds), distance>> ELSE best)

\* The second loop: bestDistance holds distance * CROSS_ZONE_PENALTY, kept
\* here as the fraction best[2] / best[3].
RECURSIVE crossZoneLoop(_, _, _)
crossZoneLoop(ds, pickupLocation, best) ==
  IF ds = <<>> THEN best
  ELSE LET distance == cityDistance(drivers[Head(ds)].currentLocation, pickupLocation)
           effectiveNum == distance * PENALTY_NUM
       IN crossZoneLoop(Tail(ds), pickupLocation,
            IF effectiveNum * best[3] < best[2] * PENALTY_DEN
            THEN <<Head(ds), effectiveNum, PENALTY_DEN>> ELSE best)

\* Mutant: the nearest available driver wins, whatever its zone.
findBestDriver_nearest(pickupLocation) ==
  LET pickupZone == getZone(city, pickupLocation)
      best == crossZoneLoop(getAvailableDrivers, pickupLocation, <<NULL, Infinity, 1>>)
  IN IF pickupZone = NoZone \/ best[1] = NULL THEN <<>>
     ELSE <<best[1],
            cityDistance(drivers[best[1]].currentLocation, pickupLocation),
            drivers[best[1]].zone # pickupZone>>

\* Mutant: the fallback reports the penalised distance it compared.
findBestDriver_effectiveDistance(pickupLocation) ==
  LET pickupZone == getZone(city, pickupLocation)
      availableDrivers == getAvailableDrivers
      sameZoneDrivers ==
        FilterSeq(availableDrivers,
                  {d \in DOMAIN drivers : drivers[d].zone = pickupZone})
      same == sameZoneLoop(sameZoneDrivers, pickupLocation, <<NULL, Infinity>>)
      cross == crossZoneLoop(availableDrivers, pickupLocation, <<NULL, Infinity, 1>>)
  IN IF pickupZone = NoZone THEN <<>>
     ELSE IF same[1] # NULL THEN <<same[1], same[2], FALSE>>
     ELSE IF cross[1] # NULL THEN <<cross[1], cross[2] \div cross[3], TRUE>>
     ELSE <<>>

\* Mutant: no fallback to the drivers of other zones.
findBestDriver_sameZoneOnly(pickupLocation) ==
  LET pickupZone == getZone(city, pickupLocation)
      sameZoneDrivers ==
        FilterSeq(getAvailableDrivers,
                  {d \in DOMAIN drivers : drivers[d].zone = pickupZone})
      same == sameZoneLoop(sameZoneDrivers, pickupLocation, <<NULL, Infinity>>)
  IN IF pickupZone = NoZone \/ same[1] = NULL THEN <<>>
     ELSE <<same[1], same[2], FALSE>>

\* findBestDriver: <<>> for null, or <<driver, distance, isCrossZone>>.
findBestDriver(pickupLocation) ==
  LET pickupZone == getZone(city, pickupLocation)
      availableDrivers == getAvailableDrivers
      sameZoneDrivers ==
        FilterSeq(availableDrivers,
                  {d \in DOMAIN drivers : drivers[d].zone = pickupZone})
      same == sameZoneLoop(sameZoneDrivers, pickupLocation, <<NULL, Infinity>>)
      cross == crossZoneLoop(availableDrivers, pickupLocation, <<NULL, Infinity, 1>>)
  IN IF pickupZone = NoZone THEN <<>>
     ELSE IF same[1] # NULL
     THEN <<same[1], same[2], FALSE>>
     ELSE IF cross[1] # NULL
     THEN <<cross[1],
            cityDistance(drivers[cross[1]].currentLocation, pickupLocation),
            TRUE>>
     ELSE <<>>

\* Math.round(x) for x = num / den >= 0.
Round(num, den) == (2 * num + den) \div (2 * den)

\* calculateCost, in hundredths.
calculateCost(distance, isCrossZone) ==
  LET cost == BASE_FARE + distance * PER_KM_RATE
  IN IF isCrossZone THEN Round(cost * PENALTY_NUM * 100, PENALTY_DEN)
     ELSE Round(cost * 100, 1)

\* Mutant: the estimate is left in hours.
estimateDuration_hours(distance) == distance \div SPEED

\* (distance / 30) * 60
estimateDuration(distance) == (distance * MINUTES) \div SPEED

\* The counters never go back, so the runs are cut where a call would take
\* one past its bound; a call that fails or logs nothing is never cut.
WithinBounds ==
  /\ operationCounter' <= MaxOps
  /\ driverCounter' <= MaxDrivers
  /\ riderCounter' <= MaxRiders
  /\ tripCounter' <= MaxTrips

\* ------------------------------------------------------- createDriver

NewDriver(driverId, name, location, zone) ==
  [driverId |-> driverId, name |-> name, currentLocation |-> location,
   zone |-> zone, status |-> "available", totalTrips |-> 0,
   totalDistance |-> 0, activeTime |-> 0, idleTime |-> 0,
   currentTripId |-> NULL]

createDriver(name, location) ==
  LET zone == getZone(city, location)
      driverId == driverCounter + 1
  IN IF zone = NoZone THEN Throws
     ELSE /\ driverCounter' = driverId
          /\ logOperation("create_driver", <<"Create driver", driverId, name, location>>,
                          Omitted, Omitted, Omitted, driverId, "driver")
          /\ drivers' = MapSet(drivers, driverId, NewDriver(driverId, name, location, zone))
          /\ Returns
          /\ UNCHANGED <<riders, trips, riderCounter, tripCounter>>

CreateDriver ==
  /\ \E location \in DriverLocations : createDriver(DriverName, location)
  /\ WithinBounds
  /\ UNCHANGED cityVars
  /\ systemInstance' = getRideShareSystem

\* -------------------------------------------------------- createRider

NewRider(riderId, name, location) ==
  [riderId |-> riderId, name |-> name, currentLocation |-> location,
   tripHistory |-> <<>>, currentTripId |-> NULL, totalTrips |-> 0,
   totalDistance |-> 0, totalSpent |-> 0]

createRider(name, location) ==
  LET riderId == riderCounter + 1
  IN IF getZone(city, location) = NoZone
     THEN Throws
     ELSE /\ riderCounter' = riderId
          /\ logOperation("create_rider", <<"Create rider", riderId, name, location>>,
                          Omitted, Omitted, Omitted, riderId, "rider")
          /\ riders' = MapSet(riders, riderId, NewRider(riderId, name, location))
          /\ Returns
          /\ UNCHANGED <<drivers, trips, driverCounter, tripCounter>>

CreateRider ==
  /\ \E location \in RiderLocations : createRider(RiderName, location)
  /\ WithinBounds
  /\ UNCHANGED cityVars
  /\ systemInstance' = getRideShareSystem

\* -------------------------------------------------------- requestTrip

\* Mutant: the cross-zone flag is left false at creation.
NewTrip_flagUnset(tripId, riderId, pickupLocation, dropoffLocation, pickupZone, dropoffZone) ==
  [tripId |-> tripId, riderId |-> riderId, driverId |-> NULL,
   pickupLocation |-> pickupLocation, dropoffLocation |-> dropoffLocation,
   pickupZone |-> pickupZone, dropoffZone |-> dropoffZone,
   state |-> "requested", distance |-> 0, estimatedDuration |-> 0,
   actualDuration |-> 0, cost |-> 0, path |-> <<>>,
   isCrossZone |-> FALSE,
   createdAt |-> now, assignedAt |-> NULL, startedAt |-> NULL,
   completedAt |-> NULL, cancelledAt |-> NULL]

NewTrip(tripId, riderId, pickupLocation, dropoffLocation, pickupZone, dropoffZone) ==
  [tripId |-> tripId, riderId |-> riderId, driverId |-> NULL,
   pickupLocation |-> pickupLocation, dropoffLocation |-> dropoffLocation,
   pickupZone |-> pickupZone, dropoffZone |-> dropoffZone,
   state |-> "requested", distance |-> 0, estimatedDuration |-> 0,
   actualDuration |-> 0, cost |-> 0, path |-> <<>>,
   isCrossZone |-> (pickupZone # dropoffZone),
   createdAt |-> now, assignedAt |-> NULL, startedAt |-> NULL,
   completedAt |-> NULL, cancelledAt |-> NULL]

\* Mutant: the rider is never found busy.
hasActiveTrip_never(rider) == FALSE

\* if (rider.currentTripId)
hasActiveTrip(rider) == rider.currentTripId # NULL

requestTrip(riderId, pickupLocation, dropoffLocation) ==
  LET pickupZone == getZone(city, pickupLocation)
      dropoffZone == getZone(city, dropoffLocation)
      tripId == tripCounter + 1
  IN IF riderId \notin DOMAIN riders
     THEN Throws
     ELSE IF hasActiveTrip(riders[riderId])
     THEN Throws
     ELSE IF pickupZone = NoZone
     THEN Throws
     ELSE IF dropoffZone = NoZone
     THEN Throws
     ELSE /\ tripCounter' = tripId
          /\ logOperation("request_trip", <<"Request trip", tripId, riderId>>,
                          Omitted, <<riderId>>, Omitted, tripId, "trip")
          /\ trips' = MapSet(trips, tripId,
                        NewTrip(tripId, riderId, pickupLocation, dropoffLocation,
                                pickupZone, dropoffZone))
          /\ riders' = [riders EXCEPT ![riderId].currentTripId = tripId]
          /\ Returns
          /\ UNCHANGED <<drivers, driverCounter, riderCounter>>

RequestTrip ==
  /\ \E riderId \in RiderIds, pickupLocation \in PickupLocations,
        dropoffLocation \in DropoffLocations :
       requestTrip(riderId, pickupLocation, dropoffLocation)
  /\ WithinBounds
  /\ UNCHANGED cityVars
  /\ systemInstance' = getRideShareSystem


\* --------------------------------------------------------- assignTrip

\* driver.status = "busy"; driver.currentTripId = tripId
occupy(driver, tripId) == [driver EXCEPT !.status = "busy", !.currentTripId = tripId]

assignTrip(tripId) ==
  IF tripId \notin DOMAIN trips
  THEN Throws
  ELSE IF trips[tripId].state # "requested"
  THEN Throws
  ELSE
    LET trip == trips[tripId]
        found == findBestDriver(trip.pickupLocation)
    IN IF found = <<>>
       THEN ReturnsNull
       ELSE
         LET driverId == found[1]
             route == cityShortestPath(trip.pickupLocation, trip.dropoffLocation)
             path == route[1]
             distance == route[2]
         IN /\ logOperation("assign_trip", <<"Assign driver", driverId, tripId>>,
                            <<driverId>>, Omitted, <<tripId>>, NULL, NoType)
            /\ trips' = [trips EXCEPT ![tripId] =
                 [@ EXCEPT !.state = "assigned",
                           !.driverId = driverId,
                           !.distance = distance,
                           !.path = path,
                           !.estimatedDuration = estimateDuration(distance),
                           !.cost = calculateCost(distance, trip.isCrossZone),
                           !.assignedAt = now]]
            /\ drivers' = [drivers EXCEPT ![driverId] = occupy(@, tripId)]
            /\ Returns
            /\ UNCHANGED <<riders, driverCounter, riderCounter, tripCounter>>

AssignTrip ==
  /\ \E tripId \in TripIds : assignTrip(tripId)
  /\ WithinBounds
  /\ UNCHANGED cityVars
  /\ systemInstance' = getRideShareSystem

\* ---------------------------------------------------------- startTrip

\* Mutant: starting also restamps the assignment.
started_restamped(trip) ==
  [trip EXCEPT !.state = "ongoing", !.startedAt = now, !.assignedAt = now]

\* trip.state = "ongoing"; trip.startedAt = new Date()
started(trip) == [trip EXCEPT !.state = "ongoing", !.startedAt = now]

startTrip(tripId) ==
  IF tripId \notin DOMAIN trips
  THEN Throws
  ELSE IF "ongoing" \notin VALID_TRANSITIONS[trips[tripId].state]
  THEN Throws
  ELSE /\ logOperation("start_trip", <<"Start trip", tripId>>,
                       Omitted, Omitted, <<tripId>>, NULL, NoType)
       /\ trips' = [trips EXCEPT ![tripId] = started(@)]
       /\ Returns
       /\ UNCHANGED <<drivers, riders, driverCounter, riderCounter, tripCounter>>

StartTrip ==
  /\ \E tripId \in TripIds : startTrip(tripId)
  /\ WithinBounds
  /\ UNCHANGED cityVars
  /\ systemInstance' = getRideShareSystem

\* ------------------------------------------------------- completeTrip

\* trip.driverId ? [trip.driverId] : []
affectedDriversOf(trip) == IF trip.driverId # NULL THEN <<trip.driverId>> ELSE <<>>

\* The live driver / rider the handler looked up, or NULL.
driverOf(trip) ==
  IF trip.driverId # NULL /\ trip.driverId \in DOMAIN drivers THEN trip.driverId ELSE NULL

riderOf(trip) == IF trip.riderId \in DOMAIN riders THEN trip.riderId ELSE NULL

\* Mutant: the supplied duration is ignored.
durationOf_estimated(trip, actualDuration) == trip.estimatedDuration

\* actualDuration ?? trip.estimatedDuration
durationOf(trip, actualDuration) ==
  IF actualDuration = NULL THEN trip.estimatedDuration ELSE actualDuration

\* Mutant: the driver is left in the zone the trip was picked up in.
arrivalZone_pickup(trip) == trip.pickupZone

\* driver.zone = trip.dropoffZone, set along with the location.
arrivalZone(trip) == trip.dropoffZone

completeTrip(tripId, actualDuration) ==
  IF tripId \notin DOMAIN trips
  THEN Throws
  ELSE IF "completed" \notin VALID_TRANSITIONS[trips[tripId].state]
  THEN Throws
  ELSE
    LET trip == trips[tripId]
        driver == driverOf(trip)
        rider == riderOf(trip)
        duration == durationOf(trip, actualDuration)
    IN /\ logOperation("complete_trip", <<"Complete trip", tripId>>,
                       affectedDriversOf(trip), <<trip.riderId>>, <<tripId>>, NULL, NoType)
       /\ trips' = [trips EXCEPT ![tripId] =
            [@ EXCEPT !.state = "completed", !.completedAt = now,
                      !.actualDuration = duration]]
       /\ drivers' =
            IF driver = NULL THEN drivers
            ELSE [drivers EXCEPT ![driver] =
                   [@ EXCEPT !.status = "available",
                             !.currentTripId = NULL,
                             !.totalTrips = @ + 1,
                             !.totalDistance = @ + trip.distance,
                             !.activeTime = @ + duration,
                             !.currentLocation = trip.dropoffLocation,
                             !.zone = arrivalZone(trip)]]
       /\ riders' =
            IF rider = NULL THEN riders
            ELSE [riders EXCEPT ![rider] =
                   [@ EXCEPT !.tripHistory = Append(@, tripId),
                             !.currentTripId = NULL,
                             !.totalTrips = @ + 1,
                             !.totalDistance = @ + trip.distance,
                             !.totalSpent = @ + trip.cost,
                             !.currentLocation = trip.dropoffLocation]]
       /\ Returns
       /\ UNCHANGED <<driverCounter, riderCounter, tripCounter>>

CompleteTrip ==
  /\ \E tripId \in TripIds, actualDuration \in Durations :
       completeTrip(tripId, actualDuration)
  /\ WithinBounds
  /\ UNCHANGED cityVars
  /\ systemInstance' = getRideShareSystem

\* --------------------------------------------------------- cancelTrip

\* Mutant: the released driver keeps its trip id.
release_keepsTrip(driver) == [driver EXCEPT !.status = "available"]

\* Mutant: the released driver stays busy.
release_staysBusy(driver) == [driver EXCEPT !.currentTripId = NULL]

\* driver.status = "available"; driver.currentTripId = null
release(driver) == [driver EXCEPT !.status = "available", !.currentTripId = NULL]

cancelTrip(tripId) ==
  IF tripId \notin DOMAIN trips
  THEN Throws
  ELSE IF "cancelled" \notin VALID_TRANSITIONS[trips[tripId].state]
  THEN Throws
  ELSE
    LET trip == trips[tripId]
        driver == driverOf(trip)
        rider == riderOf(trip)
    IN /\ logOperation("cancel_trip", <<"Cancel trip", tripId>>,
                       affectedDriversOf(trip), <<trip.riderId>>, <<tripId>>, NULL, NoType)
       /\ trips' = [trips EXCEPT ![tripId] =
            [@ EXCEPT !.state = "cancelled", !.cancelledAt = now]]
       /\ drivers' =
            IF driver = NULL THEN drivers
            ELSE [drivers EXCEPT ![driver] = release(@)]
       /\ riders' =
            IF rider = NULL THEN riders
            ELSE [riders EXCEPT ![rider] = [@ EXCEPT !.currentTripId = NULL]]
       /\ Returns
       /\ UNCHANGED <<driverCounter, riderCounter, tripCounter>>

CancelTrip ==
  /\ \E tripId \in TripIds : cancelTrip(tripId)
  /\ WithinBounds
  /\ UNCHANGED cityVars
  /\ systemInstance' = getRideShareSystem

\* ----------------------------------------------------------- rollback
\* The rollback code as a function of the engine's mutable part
\* eng = [drivers, riders, trips, operationStack].

\* Mutant: the snapshots are never written back.
restoreFrom_keepsLive(map, snapshots) == map

\* Object.assign(entity, snapshot) for every snapshot whose entity is live.
restoreFrom(map, snapshots) ==
  [id \in DOMAIN map |-> IF id \in DOMAIN snapshots THEN snapshots[id] ELSE map[id]]

\* Mutant: the created entity is never deleted.
deleteCreated_never(map, operation, type) == map

\* Mutant: the created id is deleted without looking at the entity type.
deleteCreated_anyType(map, operation, type) ==
  IF operation.createdEntityId # NULL /\ operation.createdEntityId \in DOMAIN map
  THEN MapDelete(map, operation.createdEntityId)
  ELSE map

\* The branch of applyRollback that deletes the entity the record created.
deleteCreated(map, operation, type) ==
  IF operation.createdEntityId # NULL /\ operation.createdEntityType = type
  THEN MapDelete(map, operation.createdEntityId)
  ELSE map

\* Mutant: only the trips are restored.
applyRollback_tripsOnly(eng, operation) ==
  [eng EXCEPT
     !.trips = restoreFrom(deleteCreated(@, operation, "trip"),
                           operation.beforeSnapshot.tripSnapshots)]

applyRollback(eng, operation) ==
  LET snapshot == operation.beforeSnapshot
  IN [eng EXCEPT
        !.drivers = restoreFrom(deleteCreated(@, operation, "driver"),
                                snapshot.driverSnapshots),
        !.riders = restoreFrom(deleteCreated(@, operation, "rider"),
                               snapshot.riderSnapshots),
        !.trips = restoreFrom(deleteCreated(@, operation, "trip"),
                              snapshot.tripSnapshots)]

\* The Operation handed back for a record.
descriptor(operation) ==
  [operationId |-> operation.operationId,
   operationType |-> operation.operationType,
   timestamp |-> operation.timestamp,
   description |-> operation.description]

\* Mutant: a completed trip is refused, as a business rule would.
rollbackLast_vetoesCompleted(eng) ==
  IF eng.operationStack = <<>> THEN <<eng, <<>> >>
  ELSE LET operation == eng.operationStack[Len(eng.operationStack)]
           popped == [eng EXCEPT !.operationStack = SubSeq(@, 1, Len(@) - 1)]
       IN IF operation.operationType = "complete_trip" THEN <<eng, <<>> >>
          ELSE <<applyRollback(popped, operation), <<descriptor(operation)>> >>

\* rollbackLast: <<engine after, undone>>, undone being <<>> for null and
\* <<Operation>> otherwise.
rollbackLast(eng) ==
  IF eng.operationStack = <<>> THEN <<eng, <<>> >>
  ELSE LET operation == eng.operationStack[Len(eng.operationStack)]
           popped == [eng EXCEPT !.operationStack = SubSeq(@, 1, Len(@) - 1)]
       IN <<applyRollback(popped, operation), <<descriptor(operation)>> >>

\* rollbackK: the loop from i on; <<engine after, rolledBack>>.
RECURSIVE rollbackLoop(_, _, _, _)
rollbackLoop(eng, i, k, rolledBack) ==
  IF ~(i < k) THEN <<eng, rolledBack>>
  ELSE LET r == rollbackLast(eng)
       IN IF r[2] = <<>> THEN <<r[1], rolledBack>>
          ELSE rollbackLoop(r[1], i + 1, k, rolledBack \o r[2])

\* Mutant: the loop counter starts at 1.
rollbackK_fromOne(eng, k) == rollbackLoop(eng, 1, k, <<>>)

rollbackK(eng, k) == rollbackLoop(eng, 0, k, <<>>)

\* What is still shared once the records above eng.operationStack have
\* been popped and applied: a popped record is gone, and a rider that was
\* restored (or deleted) holds the new array Object.assign gave it, a copy
\* of the snapshot's.
sharedAfterRollback(eng) ==
  LET kept == {eng.operationStack[k].operationId : k \in 1..Len(eng.operationStack)}
      restored == UNION {DOMAIN operationStack[k].beforeSnapshot.riderSnapshots :
                           k \in (Len(eng.operationStack) + 1)..Len(operationStack)}
  IN {s \in sharedHistory :
        s[1] \in kept /\ s[2] \in DOMAIN eng.riders /\ s[2] \notin restored}

engine ==
  [drivers |-> drivers, riders |-> riders, trips |-> trips,
   operationStack |-> operationStack]

Commit(eng) ==
  /\ drivers' = eng.drivers
  /\ riders' = eng.riders
  /\ trips' = eng.trips
  /\ operationStack' = eng.operationStack
  /\ storesBefore' = SubSeq(storesBefore, 1, Len(eng.operationStack))
  /\ sharedHistory' = sharedAfterRollback(eng)

RollbackLast ==
  LET r == rollbackLast(engine)
  IN /\ Commit(r[1])
     /\ result' = IF r[2] = <<>> THEN "none" ELSE "ok"
     /\ UNCHANGED counters
     /\ UNCHANGED cityVars
     /\ systemInstance' = getRideShareSystem

RollbackK ==
  \E k \in RollbackCounts :
    LET r == rollbackK(engine, k)
    IN /\ Commit(r[1])
       /\ Returns
       /\ UNCHANGED counters
       /\ UNCHANGED cityVars
       /\ systemInstance' = getRideShareSystem

\* ----------------------------------------------------- getTripEstimate
\* <<>> for null, or <<TripEstimate>>; distance in hundredths, durations in
\* tenths of a minute.

\* The estimate built from the route found, the cross-zone flag and the
\* driver search's result: <<>> is null.
estimateOf(route, isCrossZone, driverResult) ==
  LET distance == route[2]
  IN IF distance = Infinity THEN <<>>
     ELSE <<[distance |-> Round(distance * 100, 1),
             estimatedDuration |-> Round(distance * MINUTES * 10, SPEED),
             cost |-> calculateCost(distance, isCrossZone),
             isCrossZone |-> isCrossZone,
             path |-> route[1],
             driverAvailable |-> (driverResult # <<>>),
             driverEta |-> IF driverResult = <<>> THEN NULL
                           ELSE Round(driverResult[2] * MINUTES * 10, SPEED)]>>

\* Mutant: the estimate is always priced as a same-zone trip.
getTripEstimate_plainFare(pickupLocation, dropoffLocation) ==
  LET pickupZone == getZone(city, pickupLocation)
      dropoffZone == getZone(city, dropoffLocation)
  IN IF pickupZone = NoZone \/ dropoffZone = NoZone THEN <<>>
     ELSE estimateOf(cityShortestPath(pickupLocation, dropoffLocation),
                     FALSE, findBestDriver(pickupLocation))

getTripEstimate(pickupLocation, dropoffLocation) ==
  LET pickupZone == getZone(city, pickupLocation)
      dropoffZone == getZone(city, dropoffLocation)
  IN IF pickupZone = NoZone \/ dropoffZone = NoZone THEN <<>>
     ELSE estimateOf(cityShortestPath(pickupLocation, dropoffLocation),
                     pickupZone # dropoffZone, findBestDriver(pickupLocation))

\* A call of getTripEstimate: nothing is written.  Its null is told apart
\* from the null of assignTrip and rollbackLast.
GetTripEstimateOf(pickupLocation, dropoffLocation) ==
  /\ result' = IF getTripEstimate(pickupLocation, dropoffLocation) = <<>>
               THEN "no estimate" ELSE "ok"
  /\ UNCHANGED <<drivers, riders, trips, operationStack, counters, storesBefore, sharedHistory>>
  /\ UNCHANGED cityVars
  /\ systemInstance' = getRideShareSystem

GetTripEstimate ==
  \E pickupLocation \in PickupLocations, dropoffLocation \in DropoffLocations :
    GetTripEstimateOf(pickupLocation, dropoffLocation)

\* ---------------------------------------------------------- analytics
\* getAnalytics as a function of the three stores.  Money and distances are
\* in hundredths, the utilization in ten-thousandths; a ratio the code
\* leaves unrounded is the fraction <<numerator, denominator>>.

\* City.getAllZones, as a set.
getAllZones == DOMAIN city.zones

\* array.reduce((sum, x) => sum + f(x), 0) over the entities ids of a store
RECURSIVE SumOver(_, _, _)
SumOver(ids, map, field) ==
  IF ids = <<>> THEN 0
  ELSE map[Head(ids)][field] + SumOver(Tail(ids), map, field)

\* n > 0 ? a / n : 0
Ratio(a, n) == IF n > 0 THEN <<a, n>> ELSE <<0, 1>>

\* The utilization loop: <<numerator, denominator, activeDriverCount>> of
\* totalUtilization after the drivers ds.
RECURSIVE utilizationLoop(_, _, _)
utilizationLoop(ds, map, acc) ==
  IF ds = <<>> THEN acc
  ELSE LET driver == map[Head(ds)]
           totalTime == driver.activeTime + driver.idleTime
       IN utilizationLoop(Tail(ds), map,
            IF totalTime > 0
            THEN <<acc[1] * totalTime + driver.activeTime * acc[2],
                   acc[2] * totalTime, acc[3] + 1>>
            ELSE acc)

\* Mutant: cancelled trips are counted in the revenue too.
revenueTrips_allEnded(ts) ==
  FilterSeq(Keys(ts), {t \in DOMAIN ts : ts[t].state \in {"completed", "cancelled"}})

\* The trips whose cost is summed into totalRevenue.
revenueTrips(ts) == FilterSeq(Keys(ts), {t \in DOMAIN ts : ts[t].state = "completed"})

getAnalytics(ds, rs, ts) ==
  LET allTrips == Keys(ts)
      completedTrips == FilterSeq(allTrips, {t \in DOMAIN ts : ts[t].state = "completed"})
      cancelledTrips == FilterSeq(allTrips, {t \in DOMAIN ts : ts[t].state = "cancelled"})
      activeTrips ==
        FilterSeq(allTrips, {t \in DOMAIN ts : ts[t].state \notin {"completed", "cancelled"}})
      allDrivers == Keys(ds)
      utilization == utilizationLoop(allDrivers, ds, <<0, 1, 0>>)
      crossZoneCompleted == FilterSeq(completedTrips, {t \in DOMAIN ts : ts[t].isCrossZone})
      statusCount(zoneDrivers, status) ==
        Cardinality({d \in zoneDrivers : ds[d].status = status})
  IN [totalTrips |-> Len(allTrips),
      completedTrips |-> Len(completedTrips),
      cancelledTrips |-> Len(cancelledTrips),
      activeTrips |-> Len(activeTrips),
      completionRate |-> Ratio(Len(completedTrips), Len(allTrips)),
      cancellationRate |-> Ratio(Len(cancelledTrips), Len(allTrips)),
      averageTripDistance |->
        IF Len(completedTrips) > 0
        THEN Round(SumOver(completedTrips, ts, "distance") * 100, Len(completedTrips))
        ELSE 0,
      totalDistanceCovered |-> SumOver(completedTrips, ts, "distance") * 100,
      averageDriverUtilization |->
        IF utilization[3] > 0
        THEN Round(utilization[1] * 10000, utilization[2] * utilization[3])
        ELSE 0,
      totalDrivers |-> Len(allDrivers),
      availableDrivers |-> statusCount(DOMAIN ds, "available"),
      busyDrivers |-> statusCount(DOMAIN ds, "busy"),
      totalRevenue |-> SumOver(revenueTrips(ts), ts, "cost"),
      crossZoneTrips |-> Len(crossZoneCompleted),
      crossZonePercentage |-> Ratio(Len(crossZoneCompleted), Len(completedTrips)),
      totalRiders |-> Cardinality(DOMAIN rs),
      zoneStatistics |->
        [zone \in getAllZones |->
           LET zoneDrivers == {d \in DOMAIN ds : ds[d].zone = zone}
           IN [totalDrivers |-> Cardinality(zoneDrivers),
               available |-> statusCount(zoneDrivers, "available"),
               busy |-> statusCount(zoneDrivers, "busy"),
               offline |-> statusCount(zoneDrivers, "offline")]]]

\* A call of getAnalytics: the stores are read, nothing is written.
GetAnalytics ==
  /\ Returns
  /\ UNCHANGED <<drivers, riders, trips, operationStack, counters, storesBefore, sharedHistory>>
  /\ UNCHANGED cityVars
  /\ systemInstance' = getRideShareSystem

\* ------------------------------------------------- city under construction
\* The City class on its own: a city built by addNode and addEdge calls and
\* queried by shortestPath.  Nodes a, b (Z1) and c (Z2); the road a-b of
\* weight 1, the roads b-c and a-c of weight 1 or 3, a road of negative
\* weight, and roads from and to x, which is never added.

NodeNames == {"a", "b", "c"}
UnknownNode == "x"
NodeInputs == {<<"a", "Z1">>, <<"b", "Z1">>, <<"c", "Z2">>}
Weights == {1, 3}
Roads == {<<"b", "c">>, <<"a", "c">>}
EdgeInputs ==
  {<<r[1], r[2], w>> : r \in Roads, w \in Weights}
    \cup {<<"a", "b", 1>>, <<"a", "c", 0 - 2>>,
          <<"a", UnknownNode, 1>>, <<UnknownNode, "a", 1>>}
Queries ==
  (NodeNames \X NodeNames) \cup {<<UnknownNode, "a">>, <<"a", UnknownNode>>}

NoRoute == [start |-> NoNode, end |-> NoNode, path |-> <<>>, distance |-> NULL]

RECURSIVE SumLen(_, _)
SumLen(f, keys) ==
  IF keys = {} THEN 0
  ELSE LET k == CHOOSE x \in keys : TRUE
       IN Len(f[k]) + SumLen(f, keys \ {k})

\* Every addNode call pushes one id onto one zone list.
nodeAdds(c) == SumLen(c.zones, DOMAIN c.zones)

engineVars ==
  <<drivers, riders, trips, operationStack, counters, storesBefore, sharedHistory,
    systemInstance>>

AddNodeOf(nodeId, zone) ==
  /\ nodeAdds(graph) < MaxNodeAdds
  /\ graph' = addNode(graph, nodeId, zone)
  /\ lastRoute' = NoRoute
  /\ result' = "ok"
  /\ UNCHANGED engineVars

AddNode == \E n \in NodeInputs : AddNodeOf(n[1], n[2])

AddEdgeOf(fromNode, toNode, distance) ==
  /\ Len(graph.edges) < MaxEdges
  /\ graph' = addEdge(graph, fromNode, toNode, distance)
  /\ lastRoute' = NoRoute
  /\ result' = IF addEdgeThrows(graph, fromNode, toNode) THEN "error" ELSE "ok"
  /\ UNCHANGED engineVars

AddEdge == \E e \in EdgeInputs : AddEdgeOf(e[1], e[2], e[3])

ShortestPath ==
  /\ \E q \in Queries :
       LET r == shortestPath(graph, q[1], q[2])
       IN lastRoute' = [start |-> q[1], end |-> q[2], path |-> r[1], distance |-> r[2]]
  /\ result' = "ok"
  /\ UNCHANGED graph
  /\ UNCHANGED engineVars

CityInit ==
  /\ drivers = EmptyMap
  /\ riders = EmptyMap
  /\ trips = EmptyMap
  /\ operationStack = <<>>
  /\ operationCounter = 0
  /\ driverCounter = 0
  /\ riderCounter = 0
  /\ tripCounter = 0
  /\ result = "ok"
  /\ storesBefore = <<>>
  /\ sharedHistory = {}
  /\ graph = EmptyCity
  /\ lastRoute = NoRoute
  /\ systemInstance = NULL

CityNext ==
  \/ AddNode
  \/ AddEdge
  \/ ShortestPath

CitySpec == CityInit /\ [][CityNext]_vars

\* ------------------------------------------------------- history queries

\* getOperationHistory's count: none, fewer than the log can hold, and the
\* 20 the page asks for, which is more than it can hold.
HistoryCounts == {0, 1, 2, 20}

\* Array.prototype.slice(start): a negative start counts from the end, and
\* -0 is 0.
slice(array, start) ==
  LET len == Len(array)
      from == IF start < 0
              THEN (IF len + start > 0 THEN len + start ELSE 0)
              ELSE (IF start < len THEN start ELSE len)
  IN SubSeq(array, from + 1, len)

reverse(array) == [i \in 1..Len(array) |-> array[Len(array) + 1 - i]]

getOperationHistory(count) ==
  LET taken == reverse(slice(operationStack, 0 - count))
  IN [i \in 1..Len(taken) |-> descriptor(taken[i])]

canRollback == Len(operationStack) > 0

getOperationCount == Len(operationStack)

\* A call of getOperationHistory: the log is read, nothing is written.
GetOperationHistoryOf(count) ==
  /\ Returns
  /\ UNCHANGED <<drivers, riders, trips, operationStack, counters, storesBefore, sharedHistory>>
  /\ UNCHANGED cityVars
  /\ systemInstance' = getRideShareSystem

GetOperationHistory == \E count \in HistoryCounts : GetOperationHistoryOf(count)

\* A call of canRollback or getOperationCount.
CanRollback ==
  /\ Returns
  /\ UNCHANGED <<drivers, riders, trips, operationStack, counters, storesBefore, sharedHistory>>
  /\ UNCHANGED cityVars
  /\ systemInstance' = getRideShareSystem

\* ------------------------------------------------------------- singleton

\* A call of getRideShareSystem on its own: the instance is constructed if
\* there is none, and nothing else is written.
GetRideShareSystem ==
  /\ systemInstance' = getRideShareSystem
  /\ Returns
  /\ UNCHANGED <<drivers, riders, trips, operationStack, counters, storesBefore, sharedHistory>>
  /\ UNCHANGED cityVars

\* Mutant: the new instance takes over the id counters of the old one.
resetRideShareSystem_keepsCounters ==
  /\ systemInstance' = (IF systemInstance = NULL THEN 1 ELSE systemInstance + 1)
  /\ systemInstance' <= MaxInstances
  /\ drivers' = EmptyMap
  /\ riders' = EmptyMap
  /\ trips' = EmptyMap
  /\ operationStack' = <<>>
  /\ storesBefore' = <<>>
  /\ sharedHistory' = {}
  /\ graph' = createSampleCity
  /\ Returns
  /\ UNCHANGED <<counters, lastRoute>>

\* systemInstance = new RideShareSystem(): the field initialisers and the
\* constructor, which builds the sample city.
resetRideShareSystem ==
  /\ systemInstance' = (IF systemInstance = NULL THEN 1 ELSE systemInstance + 1)
  /\ systemInstance' <= MaxInstances
  /\ drivers' = EmptyMap
  /\ riders' = EmptyMap
  /\ trips' = EmptyMap
  /\ operationStack' = <<>>
  /\ operationCounter' = 0
  /\ driverCounter' = 0
  /\ riderCounter' = 0
  /\ tripCounter' = 0
  /\ storesBefore' = <<>>
  /\ sharedHistory' = {}
  /\ graph' = createSampleCity
  /\ Returns
  /\ UNCHANGED lastRoute

ResetRideShareSystem == resetRideShareSystem

\* ------------------------------------------------------ specification


Init ==
  /\ drivers = EmptyMap
  /\ riders = EmptyMap
  /\ trips = EmptyMap
  /\ operationStack = <<>>
  /\ operationCounter = 0
  /\ driverCounter = 0
  /\ riderCounter = 0
  /\ tripCounter = 0
  /\ result = "ok"
  /\ storesBefore = <<>>
  /\ sharedHistory = {}
  /\ graph = createSampleCity
  /\ lastRoute = NoRoute
  /\ systemInstance = NULL

Next ==
  \/ CreateDriver
  \/ CreateRider
  \/ RequestTrip
  \/ AssignTrip
  \/ StartTrip
  \/ CompleteTrip
  \/ CancelTrip
  \/ RollbackLast
  \/ RollbackK
  \/ GetTripEstimate
  \/ GetAnalytics
  \/ GetRideShareSystem
  \/ ResetRideShareSystem
  \/ GetOperationHistory
  \/ CanRollback

Spec == Init /\ [][Next]_vars

\* ------------------------------------------------- one trip, taken further
\* The engine with one driver, one rider and one trip between nodes of the
\* city, and more operations than under Spec: enough to roll back and then
\* complete the trip.

RerunFrame ==
  /\ operationCounter' <= MaxRerunOps
  /\ driverCounter' <= 1
  /\ riderCounter' <= 1
  /\ tripCounter' <= 1
  /\ UNCHANGED cityVars
  /\ systemInstance' = getRideShareSystem

RerunCreateDriver == createDriver(DriverName, "A1") /\ RerunFrame
RerunCreateRider == createRider(RiderName, "A3") /\ RerunFrame
RerunRequestTrip == requestTrip(1, "A3", "A1") /\ RerunFrame
RerunAssignTrip == assignTrip(1) /\ RerunFrame
RerunStartTrip == startTrip(1) /\ RerunFrame
RerunCompleteTrip == completeTrip(1, NULL) /\ RerunFrame

RerunNext ==
  \/ RerunCreateDriver
  \/ RerunCreateRider
  \/ RerunRequestTrip
  \/ RerunAssignTrip
  \/ RerunStartTrip
  \/ RerunCompleteTrip
  \/ RollbackLast

RerunSpec == Init /\ [][RerunNext]_vars


\* ================================================================ claims

Top(stack) == stack[Len(stack)]

\* A step in which one of the forward operations logged a record.
Logged(type) ==
  /\ Len(operationStack') = Len(operationStack) + 1
  /\ Top(operationStack').operationType = type

\* A step that is no rollback: the log did not shrink.
ForwardStep == Len(operationStack') >= Len(operationStack)

\* The transition table as the design document gives it, with the operation
\* that performs each transition.
TransitionTable ==
  { <<"requested", "assigned", "assign_trip">>,
    <<"requested", "cancelled", "cancel_trip">>,
    <<"assigned", "ongoing", "start_trip">>,
    <<"assigned", "cancelled", "cancel_trip">>,
    <<"ongoing", "completed", "complete_trip">> }

\* C1: in a step that is not a rollback, a trip that exists before and after
\* either keeps its state or moves along one entry of the transition table,
\* by the operation of that entry; a trip that appears is in state requested,
\* put there by request_trip.  So completed and cancelled are left by no
\* forward operation.
C1_TransitionsFollowTable ==
  [][ForwardStep =>
        /\ \A t \in DOMAIN trips \cap DOMAIN trips' :
             \/ trips'[t].state = trips[t].state
             \/ \E e \in TransitionTable :
                  /\ e[1] = trips[t].state
                  /\ e[2] = trips'[t].state
                  /\ Logged(e[3])
        /\ \A t \in DOMAIN trips' \ DOMAIN trips :
             trips'[t].state = "requested" /\ Logged("request_trip")]_vars

\* C1 witness: a trip has gone requested -> assigned -> ongoing -> completed
\* and the completion is the last operation logged.
C1_Witness ==
  /\ operationStack # <<>>
  /\ Top(operationStack).operationType = "complete_trip"
  /\ \E t \in DOMAIN trips :
       /\ trips[t].state = "completed"
       /\ Top(operationStack).beforeSnapshot.tripSnapshots[t].state = "ongoing"

\* What a failed call leaves: an error, and the engine as it was.
Failed ==
  /\ result' = "error"
  /\ UNCHANGED <<drivers, riders, trips, operationStack, counters>>

\* C2: a call of assignTrip, startTrip, completeTrip or cancelTrip on a trip
\* whose state does not allow the transition the call stands for ends in an
\* error and changes neither the trip nor anything else.
C2_InvalidTransitionFails ==
  [][\A t \in DOMAIN trips :
       /\ (trips[t].state # "requested" /\ assignTrip(t)) => Failed
       /\ (trips[t].state # "assigned" /\ startTrip(t)) => Failed
       /\ (trips[t].state # "ongoing"
             /\ \E d \in Durations : completeTrip(t, d)) => Failed
       /\ (trips[t].state \notin {"requested", "assigned"} /\ cancelTrip(t))
            => Failed]_vars

\* C2 witness: a call has just failed while a trip sits in a terminal state,
\* from which every one of the four calls is invalid.
C2_Witness ==
  /\ result = "error"
  /\ \E t \in DOMAIN trips : trips[t].state \in {"completed", "cancelled"}

\* C3: the stores that rollbackK(k) leaves, for every k up to the length of
\* the log, are the stores as they were before the k-th last logged operation.
C3_RollbackKRestores ==
  \A k \in 1..Len(operationStack) :
    LET after == rollbackK(engine, k)[1]
    IN <<after.drivers, after.riders, after.trips>>
         = storesBefore[Len(operationStack) - k + 1]

\* C3 witness: two operations have been undone and three are logged, the
\* last of them an assignment, so k = 3 restores stores that held entities.
C3_Witness ==
  /\ Len(operationStack) >= 3
  /\ operationCounter >= Len(operationStack) + 2
  /\ Top(operationStack).operationType = "assign_trip"
  /\ storesBefore[Len(operationStack) - 2] # <<EmptyMap, EmptyMap, EmptyMap>>

C5_BusyIffHoldsTrip ==
  \A d \in DOMAIN drivers :
    (drivers[d].status = "busy") <=> (drivers[d].currentTripId # NULL)

\* C5 witness: a driver is busy with a trip in a state that a rollback has
\* restored (fewer records are logged than operations were performed).
C5_Witness ==
  /\ operationCounter > Len(operationStack)
  /\ \E d \in DOMAIN drivers :
       /\ drivers[d].status = "busy"
       /\ drivers[d].currentTripId \in DOMAIN trips
       /\ trips[drivers[d].currentTripId].driverId = d

NonTerminal == {"requested", "assigned", "ongoing"}

ActiveTripsOf(r) ==
  {t \in DOMAIN trips : trips[t].riderId = r /\ trips[t].state \in NonTerminal}

\* C6: a rider has at most one trip that is requested, assigned or ongoing;
\* its currentTripId is that trip's id, and null when there is none.
C6_OneActiveTripPerRider ==
  \A r \in DOMAIN riders :
    /\ Cardinality(ActiveTripsOf(r)) <= 1
    /\ (riders[r].currentTripId # NULL) <=> (ActiveTripsOf(r) # {})
    /\ ActiveTripsOf(r) # {} => ActiveTripsOf(r) = {riders[r].currentTripId}

\* C6 witness: a rider whose first trip ended holds a second one.
C6_Witness ==
  \E r \in DOMAIN riders :
    /\ riders[r].currentTripId \in DOMAIN trips
    /\ \E t \in DOMAIN trips :
         /\ trips[t].riderId = r
         /\ trips[t].state = "cancelled"
         /\ t # riders[r].currentTripId

Available == {d \in DOMAIN drivers : drivers[d].status = "available"}

AvailableInZoneOf(p) == {d \in Available : drivers[d].zone = city.zoneOf[p]}

DistanceTo(d, p) == cityDistance(drivers[d].currentLocation, p)

\* C7: for every pickup location that has an available driver in its zone,
\* the selection is such a driver, none of them nearer to the pickup, with
\* isCrossZone false.
C7_SameZoneDriverPreferred ==
  \A p \in Range(city.nodeIds) :
    AvailableInZoneOf(p) # {} =>
      LET found == findBestDriver(p)
      IN /\ found # <<>>
         /\ found[1] \in AvailableInZoneOf(p)
         /\ found[3] = FALSE
         /\ \A d \in AvailableInZoneOf(p) : DistanceTo(found[1], p) <= DistanceTo(d, p)

\* C7 witness: a trip has just been assigned to a driver of the pickup zone
\* while an available driver of another zone is strictly nearer.
C7_Witness ==
  /\ operationStack # <<>>
  /\ Top(operationStack).operationType = "assign_trip"
  /\ \E t \in DOMAIN trips :
       /\ trips[t].state = "assigned"
       /\ drivers[trips[t].driverId].zone = trips[t].pickupZone
       /\ \E d \in Available :
            /\ drivers[d].zone # trips[t].pickupZone
            /\ DistanceTo(d, trips[t].pickupLocation)
                 < DistanceTo(trips[t].driverId, trips[t].pickupLocation)

\* C8: for every pickup location with no available driver in its zone and
\* some driver available, the selection is an available driver, none nearer
\* to the pickup, with isCrossZone true and the plain shortest-path distance.
C8_CrossZoneFallback ==
  \A p \in Range(city.nodeIds) :
    (AvailableInZoneOf(p) = {} /\ Available # {}) =>
      LET found == findBestDriver(p)
      IN /\ found # <<>>
         /\ found[1] \in Available
         /\ found[3] = TRUE
         /\ found[2] = DistanceTo(found[1], p)
         /\ \A d \in Available : found[2] <= DistanceTo(d, p)

\* C8 witness: a trip has just been assigned to the nearer of two drivers,
\* both outside the pickup zone.
C8_Witness ==
  /\ operationStack # <<>>
  /\ Top(operationStack).operationType = "assign_trip"
  /\ \E t \in DOMAIN trips :
       /\ trips[t].state = "assigned"
       /\ drivers[trips[t].driverId].zone # trips[t].pickupZone
       /\ \E d \in Available :
            /\ drivers[d].zone # trips[t].pickupZone
            /\ DistanceTo(d, trips[t].pickupLocation)
                 > DistanceTo(trips[t].driverId, trips[t].pickupLocation)

\* (baseFare + distance * perKmRate) * 1.5, in hundredths.
PenalisedCost(distance) == (BASE_FARE + distance * PER_KM_RATE) * 150

\* C9: when assignTrip assigns the driver that the cross-zone fallback
\* selected, the cost it records on the trip carries the 1.5 multiplier.
C9_FallbackCostPenalised ==
  [][\A t \in DOMAIN trips :
       (/\ trips[t].state = "requested"
        /\ assignTrip(t)
        /\ result' = "ok"
        /\ findBestDriver(trips[t].pickupLocation)[3] = TRUE)
       => trips'[t].cost = PenalisedCost(trips'[t].distance)]_vars

\* C10: assignTrip on a requested trip assigns a driver exactly when some
\* driver is available; when none is, it returns null and leaves the stores,
\* the log and the counters as they were.
C10_AssignsIffDriverAvailable ==
  [][\A t \in DOMAIN trips :
       (trips[t].state = "requested" /\ assignTrip(t)) =>
         IF Available = {}
         THEN /\ result' = "none"
              /\ UNCHANGED <<drivers, riders, trips, operationStack, counters>>
         ELSE /\ result' = "ok"
              /\ Logged("assign_trip")
              /\ trips'[t].state = "assigned"
              /\ trips'[t].driverId \in Available
              /\ drivers'[trips'[t].driverId].status = "busy"]_vars

\* C10 witness: assignTrip has returned null for a requested trip, no driver
\* being available (a null from rollbackLast needs an empty log, and the
\* trip's request is logged).
C10_Witness ==
  /\ result = "none"
  /\ Available = {}
  /\ \E t \in DOMAIN trips : trips[t].state = "requested"

\* C11: a successful assignTrip on a requested trip rewrites the trip to
\* assigned with the selected driver, the shortest pickup-dropoff route (its
\* weight as distance, its nodes as path), estimatedDuration = distance / 30
\* * 60 and cost = (5 + 2 * distance) * (1.5 if the trip is cross-zone, else
\* 1), stamps assignedAt, makes that driver busy with the trip id, changes no
\* other driver, no rider and no other trip, and pushes exactly one record.
C11_AssignTripEffect ==
  [][\A t \in DOMAIN trips :
       (trips[t].state = "requested" /\ assignTrip(t) /\ result' = "ok") =>
         LET selected == findBestDriver(trips[t].pickupLocation)[1]
             route == cityShortestPath(trips[t].pickupLocation, trips[t].dropoffLocation)
             distance == route[2]
         IN /\ trips'[t].assignedAt # NULL
            /\ trips' = [trips EXCEPT ![t] =
                 [@ EXCEPT !.state = "assigned",
                           !.driverId = selected,
                           !.distance = distance,
                           !.path = route[1],
                           !.estimatedDuration = 2 * distance,
                           !.cost = (5 + 2 * distance)
                                      * (IF trips[t].isCrossZone THEN 150 ELSE 100),
                           !.assignedAt = trips'[t].assignedAt]]
            /\ drivers' = [drivers EXCEPT ![selected] =
                 [@ EXCEPT !.status = "busy", !.currentTripId = t]]
            /\ riders' = riders
            /\ Len(operationStack') = Len(operationStack) + 1
            /\ SubSeq(operationStack', 1, Len(operationStack)) = operationStack]_vars

\* C11 witness: a trip whose pickup and dropoff zones differ has just been
\* assigned at the penalised cost, a second driver being left available.
C11_Witness ==
  /\ operationStack # <<>>
  /\ Top(operationStack).operationType = "assign_trip"
  /\ \E t \in DOMAIN trips :
       /\ trips[t].state = "assigned"
       /\ trips[t].isCrossZone
       /\ trips[t].distance > 0
       /\ trips[t].cost = PenalisedCost(trips[t].distance)
       /\ \E d \in Available : d # trips[t].driverId

\* C12: completeTrip on an ongoing trip sets it to completed with
\* actualDuration = the supplied value, or estimatedDuration when none is
\* supplied; the driver becomes available with no trip, stands at the dropoff
\* in the dropoff's zone, and gains 1 trip, the trip's distance and the
\* actual duration; the rider gets the trip id appended to tripHistory, no
\* current trip, the dropoff as location, and gains 1 trip, the trip's
\* distance and the trip's cost.
C12_CompleteTripEffect ==
  [][\A t \in DOMAIN trips : \A supplied \in Durations :
       (trips[t].state = "ongoing" /\ completeTrip(t, supplied)) =>
         LET trip == trips[t]
             actual == IF supplied = NULL THEN trip.estimatedDuration ELSE supplied
             d == trip.driverId
             r == trip.riderId
         IN /\ trips'[t].state = "completed"
            /\ trips'[t].actualDuration = actual
            /\ d \in DOMAIN drivers
            /\ drivers'[d] =
                 [drivers[d] EXCEPT !.status = "available",
                                    !.currentTripId = NULL,
                                    !.currentLocation = trip.dropoffLocation,
                                    !.zone = city.zoneOf[trip.dropoffLocation],
                                    !.totalTrips = @ + 1,
                                    !.totalDistance = @ + trip.distance,
                                    !.activeTime = @ + actual]
            /\ r \in DOMAIN riders
            /\ riders'[r] =
                 [riders[r] EXCEPT !.tripHistory = Append(@, t),
                                   !.currentTripId = NULL,
                                   !.currentLocation = trip.dropoffLocation,
                                   !.totalTrips = @ + 1,
                                   !.totalDistance = @ + trip.distance,
                                   !.totalSpent = @ + trip.cost]]_vars

\* C12 witness: a trip has just been completed with a supplied duration that
\* differs from the estimate, by a driver who came from another zone and now
\* stands at the dropoff.
C12_Witness ==
  /\ operationStack # <<>>
  /\ Top(operationStack).operationType = "complete_trip"
  /\ \E t \in DOMAIN trips :
       LET before == Top(operationStack).beforeSnapshot
           d == trips[t].driverId
       IN /\ trips[t].state = "completed"
          /\ trips[t].actualDuration = SuppliedDuration
          /\ trips[t].estimatedDuration # SuppliedDuration
          /\ drivers[d].currentLocation = trips[t].dropoffLocation
          /\ before.driverSnapshots[d].zone # drivers[d].zone
          /\ drivers[d].activeTime = SuppliedDuration
          /\ riders[trips[t].riderId].totalSpent = trips[t].cost
          /\ trips[t].cost > 0

\* The position in the log of the record that assigned trip t.
AssignRecordOf(t) ==
  LET found == {i \in 1..Len(operationStack) :
                  /\ operationStack[i].operationType = "assign_trip"
                  /\ operationStack[i].affectedTripIds = <<t>>}
  IN CHOOSE i \in found : \A j \in found : j <= i

\* C13: cancelTrip on a requested or assigned trip cancels it; the assigned
\* driver, if any, becomes available with no trip and is otherwise as it was
\* before the assignment (location, zone, totals), so that it is among the
\* drivers a later assignTrip selects from; no other driver changes; the
\* rider loses its currentTripId and nothing else (tripHistory, totals and
\* location stay).
C13_CancelTripReleases ==
  [][\A t \in DOMAIN trips :
       (trips[t].state \in {"requested", "assigned"} /\ cancelTrip(t)) =>
         LET d == trips[t].driverId
             r == trips[t].riderId
         IN /\ trips'[t].state = "cancelled"
            /\ (trips[t].state = "assigned") <=> (d # NULL)
            /\ drivers' = IF d = NULL THEN drivers
                          ELSE [drivers EXCEPT ![d] =
                                  [@ EXCEPT !.status = "available",
                                            !.currentTripId = NULL]]
            /\ d # NULL =>
                 /\ drivers'[d] =
                      operationStack[AssignRecordOf(t)].beforeSnapshot.driverSnapshots[d]
                 /\ d \in Range(getAvailableDrivers')
            /\ riders' = [riders EXCEPT ![r].currentTripId = NULL]]_vars

\* C13 witness: an assigned trip has just been cancelled and its driver is
\* available again where it stood.
C13_Witness ==
  /\ operationStack # <<>>
  /\ Top(operationStack).operationType = "cancel_trip"
  /\ \E t \in DOMAIN trips :
       /\ trips[t].state = "cancelled"
       /\ trips[t].driverId \in Available
       /\ Top(operationStack).beforeSnapshot.driverSnapshots[trips[t].driverId].status = "busy"
       /\ riders[trips[t].riderId].currentTripId = NULL
       /\ riders[trips[t].riderId].tripHistory = <<>>

\* C14: startTrip on an assigned trip changes that trip's state to ongoing
\* and sets its start timestamp, and nothing else: the trip's other fields,
\* every driver (the assigned one stays busy with this trip), every rider and
\* every other trip are as before.
C14_StartTripFrame ==
  [][\A t \in DOMAIN trips :
       (trips[t].state = "assigned" /\ startTrip(t)) =>
         /\ trips'[t].startedAt # NULL
         /\ trips' = [trips EXCEPT ![t] =
              [@ EXCEPT !.state = "ongoing", !.startedAt = trips'[t].startedAt]]
         /\ drivers' = drivers
         /\ drivers'[trips[t].driverId].status = "busy"
         /\ drivers'[trips[t].driverId].currentTripId = t
         /\ riders' = riders]_vars

\* C14 witness: a trip has just been started; it carries the route, the cost
\* and the assignment stamp it had, and a start stamp.
C14_Witness ==
  /\ operationStack # <<>>
  /\ Top(operationStack).operationType = "start_trip"
  /\ \E t \in DOMAIN trips :
       /\ trips[t].state = "ongoing"
       /\ trips[t].startedAt # NULL
       /\ trips[t].startedAt # trips[t].assignedAt
       /\ trips[t].cost > 0
       /\ Top(operationStack).beforeSnapshot.tripSnapshots[t].state = "assigned"

Locations == Range(city.nodeIds)

\* C15: requestTrip for an existing rider that holds no non-terminal trip,
\* with pickup and dropoff both locations of the graph, creates one new trip
\* in state requested with driverId null and isCrossZone = (pickupZone #
\* dropoffZone), and sets the rider's currentTripId to it; in every other
\* case (no such rider, rider holding a non-terminal trip, pickup or dropoff
\* unknown) it fails.
C15_RequestTripContract ==
  [][\A r \in RiderIds, p \in PickupLocations, q \in DropoffLocations :
       requestTrip(r, p, q) =>
         IF /\ r \in DOMAIN riders
            /\ ActiveTripsOf(r) = {}
            /\ p \in Locations
            /\ q \in Locations
         THEN /\ result' = "ok"
              /\ \E t \in DOMAIN trips' \ DOMAIN trips :
                   /\ DOMAIN trips' = DOMAIN trips \cup {t}
                   /\ trips'[t].riderId = r
                   /\ trips'[t].pickupLocation = p
                   /\ trips'[t].dropoffLocation = q
                   /\ trips'[t].state = "requested"
                   /\ trips'[t].driverId = NULL
                   /\ trips'[t].isCrossZone = (city.zoneOf[p] # city.zoneOf[q])
                   /\ riders'[r].currentTripId = t
         ELSE result' = "error"]_vars

\* C15 witness: a trip whose pickup and dropoff zones differ has just been
\* requested and its rider points at it, no rollback having happened.
C15_Witness ==
  /\ operationStack # <<>>
  /\ Top(operationStack).operationType = "request_trip"
  /\ operationCounter = Len(operationStack)
  /\ \E t \in DOMAIN trips :
       /\ trips[t].state = "requested"
       /\ trips[t].isCrossZone
       /\ trips[t].pickupZone # trips[t].dropoffZone
       /\ riders[trips[t].riderId].currentTripId = t

\* The calls that the engine reports as failures.
FailingCall ==
  \/ \E location \in DriverLocations \ Locations : createDriver(DriverName, location)
  \/ \E location \in RiderLocations \ Locations : createRider(RiderName, location)
  \/ \E r \in RiderIds, p \in PickupLocations, q \in DropoffLocations :
       /\ \/ r \notin DOMAIN riders
          \/ ActiveTripsOf(r) # {}
          \/ p \notin Locations
          \/ q \notin Locations
       /\ requestTrip(r, p, q)
  \/ \E t \in TripIds \ DOMAIN trips :
       \/ assignTrip(t)
       \/ startTrip(t)
       \/ cancelTrip(t)
       \/ \E supplied \in Durations : completeTrip(t, supplied)
  \/ \E t \in DOMAIN trips :
       \/ trips[t].state # "requested" /\ assignTrip(t)
       \/ trips[t].state # "assigned" /\ startTrip(t)
       \/ trips[t].state \notin {"requested", "assigned"} /\ cancelTrip(t)
       \/ trips[t].state # "ongoing" /\ \E supplied \in Durations : completeTrip(t, supplied)

\* C16: a mutator call that reports a failure (createDriver or createRider
\* at an unknown location; requestTrip for an unknown rider, a rider with a
\* non-terminal trip or an unknown location; a trip operation on an unknown
\* trip id or from a state that does not allow it) ends in the error result
\* and leaves the driver, rider and trip stores, the operation log and the
\* four counters as they were; and nothing but such a call ends in error.
C16_FailureLeavesStateUntouched ==
  [][/\ FailingCall => Failed
     /\ result' = "error" => FailingCall]_vars

\* C16 witness: a call has failed in an engine that holds a driver, a rider,
\* a trip and a non-empty log.
C16_Witness ==
  /\ result = "error"
  /\ drivers # EmptyMap
  /\ riders # EmptyMap
  /\ trips # EmptyMap
  /\ operationStack # <<>>
  /\ driverCounter = Cardinality(DOMAIN drivers)

Min(a, b) == IF a <= b THEN a ELSE b

\* C17: rollbackLast on an empty log returns null and changes nothing;
\* rollbackK(k) undoes min(k, log length) operations, none when k <= 0: the
\* log loses that many records from its top, and the descriptors returned
\* are those of the removed records, the most recent first.
C17_RollbackCounts ==
  [][/\ (operationStack = <<>> /\ RollbackLast) =>
          /\ result' = "none"
          /\ UNCHANGED <<drivers, riders, trips, operationStack, counters>>
     /\ \A k \in RollbackCounts :
          LET r == rollbackK(engine, k)
              len == Len(operationStack)
              n == IF k <= 0 THEN 0 ELSE Min(k, len)
          IN /\ Len(r[2]) = n
             /\ r[1].operationStack = SubSeq(operationStack, 1, len - n)
             /\ n = 0 => r[1] = engine
             /\ \A i \in 1..n :
                  /\ r[2][i].operationId = operationStack[len - i + 1].operationId
                  /\ r[2][i].operationType = operationStack[len - i + 1].operationType
                  /\ r[2][i].description = operationStack[len - i + 1].description
                  /\ r[2][i].timestamp = operationStack[len - i + 1].timestamp
             /\ (Commit(r[1]) /\ UNCHANGED counters /\ result' = "ok") =>
                  Len(operationStack') = len - n]_vars

\* C17 witness: rollbackLast has returned null on a log that earlier
\* rollbacks had emptied: operations were performed, nothing is left of
\* them, and the last call found nothing to undo.
C17_Witness ==
  /\ result = "none"
  /\ operationStack = <<>>
  /\ operationCounter >= 2
  /\ stores = <<EmptyMap, EmptyMap, EmptyMap>>

\* The bound the design document gives the operation history.
MAX_LOG_SIZE == 100

\* The engine driven by successful createDriver calls only, one past the
\* bound of the design document.
FillLog ==
  /\ createDriver(DriverName, "A1")
  /\ operationCounter' <= MAX_LOG_SIZE + 1
  /\ UNCHANGED cityVars
  /\ systemInstance' = getRideShareSystem

LogSpec == Init /\ [][FillLog]_vars

\* C18: the operation log never holds more records than its bound (100); a
\* push onto a full log would discard the oldest record.
C18_LogBounded == Len(operationStack) <= MAX_LOG_SIZE

\* The entities of a store that a step changes.
Touched(before, after) == {id \in DOMAIN before : after[id] # before[id]}

\* C19: a step that pushes a record pushes exactly one, and its
\* before-snapshot holds the entities as they were before the step, for
\* exactly the entities the step touches (start_trip: the trip; assign_trip:
\* the selected driver and the trip; request_trip: the rider; complete_trip
\* and cancel_trip: the trip, its rider and its driver if any; create_driver
\* and create_rider: none), together with the ids of all entities.
C19_SnapshotRestrictedToTouched ==
  [][Len(operationStack') > Len(operationStack) =>
       LET snapshot == Top(operationStack').beforeSnapshot
       IN /\ Len(operationStack') = Len(operationStack) + 1
          /\ SubSeq(operationStack', 1, Len(operationStack)) = operationStack
          /\ snapshot.existingDriverIds = Keys(drivers)
          /\ snapshot.existingRiderIds = Keys(riders)
          /\ snapshot.existingTripIds = Keys(trips)
          /\ \A id \in DOMAIN snapshot.driverSnapshots :
               snapshot.driverSnapshots[id] = drivers[id]
          /\ \A id \in DOMAIN snapshot.riderSnapshots :
               snapshot.riderSnapshots[id] = riders[id]
          /\ \A id \in DOMAIN snapshot.tripSnapshots :
               snapshot.tripSnapshots[id] = trips[id]
          /\ DOMAIN snapshot.driverSnapshots = Touched(drivers, drivers')
          /\ DOMAIN snapshot.riderSnapshots = Touched(riders, riders')
          /\ DOMAIN snapshot.tripSnapshots = Touched(trips, trips')]_vars

\* The records a step removes from the log.
Undone ==
  {operationStack[i] : i \in (Len(operationStack') + 1)..Len(operationStack)}

\* Every id that a step removes from a store was created by a record the
\* step undoes.
RemovedOnlyByOwnRollback(before, after, type) ==
  \A id \in DOMAIN before \ DOMAIN after :
    /\ Len(operationStack') < Len(operationStack)
    /\ operationStack' = SubSeq(operationStack, 1, Len(operationStack'))
    /\ \E operation \in Undone :
         operation.createdEntityType = type /\ operation.createdEntityId = id

\* C20: rollbackLast of a create_driver, create_rider or request_trip record
\* removes the entity the record created; after rollbackLast of any record
\* the ids of the three stores are the existence sets of that record's
\* snapshot; and a driver, rider or trip leaves its store in no step but a
\* rollback that undoes the record of its creation.
C20_CreationRollback ==
  [][/\ operationStack # <<>> =>
          LET operation == Top(operationStack)
              after == rollbackLast(engine)[1]
          IN /\ Keys(after.drivers) = operation.beforeSnapshot.existingDriverIds
             /\ Keys(after.riders) = operation.beforeSnapshot.existingRiderIds
             /\ Keys(after.trips) = operation.beforeSnapshot.existingTripIds
             /\ operation.operationType = "create_driver" =>
                  /\ operation.createdEntityId \in DOMAIN drivers
                  /\ operation.createdEntityId \notin DOMAIN after.drivers
             /\ operation.operationType = "create_rider" =>
                  /\ operation.createdEntityId \in DOMAIN riders
                  /\ operation.createdEntityId \notin DOMAIN after.riders
             /\ operation.operationType = "request_trip" =>
                  /\ operation.createdEntityId \in DOMAIN trips
                  /\ operation.createdEntityId \notin DOMAIN after.trips
     /\ RemovedOnlyByOwnRollback(drivers, drivers', "driver")
     /\ RemovedOnlyByOwnRollback(riders, riders', "rider")
     /\ RemovedOnlyByOwnRollback(trips, trips', "trip")]_vars

\* C20 witness: a request has been rolled back: the trip is gone, its id is
\* spent, and the rider and the driver created before it are still there.
C20_Witness ==
  /\ trips = EmptyMap
  /\ tripCounter >= 1
  /\ riders # EmptyMap
  /\ drivers # EmptyMap
  /\ Len(operationStack) = 2
  /\ \A r \in DOMAIN riders : riders[r].currentTripId = NULL

analyticsNow == getAnalytics(drivers, riders, trips)

C23_EstimateMatchesAssignment ==
  [][/\ GetTripEstimate =>
          UNCHANGED <<drivers, riders, trips, operationStack, counters>>
     /\ \A t \in DOMAIN trips :
          (trips[t].state = "requested" /\ assignTrip(t)) =>
            LET estimate == getTripEstimate(trips[t].pickupLocation,
                                            trips[t].dropoffLocation)
            IN /\ estimate # <<>>
               /\ estimate[1].driverAvailable <=> (trips'[t].state = "assigned")
               /\ trips'[t].state = "assigned" =>
                    /\ estimate[1].path = trips'[t].path
                    /\ estimate[1].cost = trips'[t].cost
                    /\ estimate[1].distance = trips'[t].distance * 100
                    /\ estimate[1].isCrossZone = trips'[t].isCrossZone]_vars

\* C23 witness: a cross-zone trip has just been assigned to the only driver;
\* the estimate for the same pickup and dropoff shows the recorded path and
\* cost, and now reports no driver available.
C23_Witness ==
  /\ operationStack # <<>>
  /\ Top(operationStack).operationType = "assign_trip"
  /\ Available = {}
  /\ \E t \in DOMAIN trips :
       LET estimate == getTripEstimate(trips[t].pickupLocation, trips[t].dropoffLocation)
       IN /\ trips[t].state = "assigned"
          /\ trips[t].isCrossZone
          /\ estimate # <<>>
          /\ estimate[1].cost = trips[t].cost
          /\ estimate[1].path = trips[t].path
          /\ Len(estimate[1].path) >= 2
          /\ ~estimate[1].driverAvailable

TripsIn(states) == {t \in DOMAIN trips : trips[t].state \in states}

\* The sum of the costs of a set of trips.
RECURSIVE CostOf(_)
CostOf(S) ==
  IF S = {} THEN 0
  ELSE LET t == CHOOSE x \in S : TRUE IN trips[t].cost + CostOf(S \ {t})

\* A fraction <<n, d>> that lies in [0, 1] and equals a / b, or 0 when b = 0.
IsRatio(fraction, a, b) ==
  /\ fraction[2] > 0
  /\ 0 <= fraction[1] /\ fraction[1] <= fraction[2]
  /\ IF b = 0 THEN fraction[1] = 0 ELSE fraction[1] * b = a * fraction[2]

\* C24: in every reachable state getAnalytics reports completedTrips +
\* cancelledTrips + activeTrips = totalTrips, totalRevenue = the sum of the
\* costs of the completed trips only, crossZoneTrips = the number of
\* completed trips flagged cross-zone, and completionRate, cancellationRate
\* and crossZonePercentage as fractions in [0, 1] that are 0 when their
\* denominator is 0; and a call of getAnalytics changes no state.
C24_AnalyticsReadOnlyAndConsistent ==
  [][/\ GetAnalytics =>
          UNCHANGED <<drivers, riders, trips, operationStack, counters>>
     /\ LET a == analyticsNow
            completed == TripsIn({"completed"})
        IN /\ a.totalTrips = Cardinality(DOMAIN trips)
           /\ a.completedTrips + a.cancelledTrips + a.activeTrips = a.totalTrips
           /\ a.completedTrips = Cardinality(completed)
           /\ a.cancelledTrips = Cardinality(TripsIn({"cancelled"}))
           /\ a.totalRevenue = CostOf(completed)
           /\ a.crossZoneTrips = Cardinality({t \in completed : trips[t].isCrossZone})
           /\ IsRatio(a.completionRate, a.completedTrips, a.totalTrips)
           /\ IsRatio(a.cancellationRate, a.cancelledTrips, a.totalTrips)
           /\ IsRatio(a.crossZonePercentage, a.crossZoneTrips, a.completedTrips)]_vars

\* C24 witness: a trip that was priced at assignment has been cancelled:
\* analytics count it as cancelled, at rate 1, and count no revenue.
C24_Witness ==
  /\ \E t \in DOMAIN trips : trips[t].state = "cancelled" /\ trips[t].cost > 0
  /\ analyticsNow.totalTrips = 1
  /\ analyticsNow.cancelledTrips = 1
  /\ analyticsNow.cancellationRate = <<1, 1>>
  /\ analyticsNow.crossZonePercentage = <<0, 1>>
  /\ analyticsNow.totalRevenue = 0

\* --------------------------------------------------------------- C25, C26

Known(c) == Range(c.nodeIds)

\* The weights of the roads the city holds from n to m.
RoadWeights(c, n, m) ==
  {c.adjacency[n][k][2] : k \in {j \in 1..Len(c.adjacency[n]) : c.adjacency[n][j][1] = m}}

NonNegative(c) ==
  \A n \in DOMAIN c.adjacency : \A k \in 1..Len(c.adjacency[n]) : c.adjacency[n][k][2] >= 0

MinOf(S) == CHOOSE x \in S : \A y \in S : x <= y

\* Brute force: the least total weight over the paths from current to end
\* that visit no node of seen again; Infinity if there is none.
RECURSIVE minWeightFrom(_, _, _, _)
minWeightFrom(c, current, end, seen) ==
  IF current = end THEN 0
  ELSE MinOf({Infinity} \cup
         {LET rest == minWeightFrom(c, e[1], end, seen \cup {e[1]})
          IN IF rest = Infinity THEN Infinity ELSE e[2] + rest :
            e \in {x \in Range(c.adjacency[current]) : x[1] \in Known(c) \ seen}})

Reachable(c, start, end) == minWeightFrom(c, start, end, {start}) < Infinity

\* The totals a path can have, one road taken for each consecutive pair.
RECURSIVE PathWeights(_, _)
PathWeights(c, p) ==
  IF Len(p) <= 1 THEN {0}
  ELSE {w + rest : w \in RoadWeights(c, p[1], p[2]), rest \in PathWeights(c, Tail(p))}

KnownQuery ==
  /\ lastRoute # NoRoute
  /\ lastRoute.start \in Known(graph)
  /\ lastRoute.end \in Known(graph)

\* The example of the sample city: A1-A2 = 5, A2-A3 = 6, A1-A3 = 10.
SampleCityExample ==
  /\ shortestPath(city, "A1", "A3") = << <<"A1", "A3">>, 10 >>
  /\ shortestPath(city, "A1", "B3")[2] = 23

\* C25: on a city whose road weights are all non-negative, the total that
\* shortestPath(start, end) returns for known start and end is the least total
\* weight over all paths from start to end, found by brute force (Infinity
\* when there is none); on the sample city A1 -> A3 is the direct road of 10,
\* not 5 + 6 = 11.
C25_ShortestPathIsMinimal ==
  /\ SampleCityExample
  /\ (KnownQuery /\ NonNegative(graph))
       => lastRoute.distance
            = minWeightFrom(graph, lastRoute.start, lastRoute.end, {lastRoute.start})

\* C25 witness: a-b = 1, b-c = 1, a-c = 3 and shortestPath(a, c) has returned
\* the two-road path of total 2, not the direct road.
C25_Witness ==
  /\ NonNegative(graph)
  /\ "a" \in Known(graph)
  /\ RoadWeights(graph, "a", "c") = {3}
  /\ lastRoute = [start |-> "a", end |-> "c", path |-> <<"a", "b", "c">>, distance |-> 2]

\* C26: for known start and end, shortestPath(start, end) returns without
\* throwing, and returns either a path that begins with start, ends with end,
\* has a road between every two consecutive ids and road weights summing to
\* the returned total (for start = end: the one-node path and 0), or, exactly
\* when end cannot be reached from start, the empty path and Infinity.
C26_PathWellFormed ==
  KnownQuery =>
    LET p == lastRoute.path
    IN /\ result = "ok"
       /\ IF Reachable(graph, lastRoute.start, lastRoute.end)
          THEN /\ p # <<>>
               /\ p[1] = lastRoute.start
               /\ p[Len(p)] = lastRoute.end
               /\ \A i \in 1..(Len(p) - 1) : RoadWeights(graph, p[i], p[i + 1]) # {}
               /\ lastRoute.distance \in PathWeights(graph, p)
          ELSE p = <<>> /\ lastRoute.distance = Infinity
       /\ lastRoute.start = lastRoute.end => p = <<lastRoute.start>> /\ lastRoute.distance = 0

\* C26 witness: b and c are nodes with no road between them or through a,
\* and shortestPath(b, c) has returned the empty path and Infinity.
C26_Witness ==
  /\ lastRoute = [start |-> "b", end |-> "c", path |-> <<>>, distance |-> Infinity]
  /\ {"b", "c"} \subseteq Known(graph)
  /\ result = "ok"

\* -------------------------------------------------------------------- C27

\* C27: in every reachable state, after any creations, assignments,
\* completions, cancellations and rollbacks, the zone recorded for each driver
\* is the zone the city gives the driver's current location.
C27_DriverZoneInSync ==
  \A d \in DOMAIN drivers : drivers[d].zone = getZone(city, drivers[d].currentLocation)

\* C27 witness: a driver created at C1 (Zone-C) has completed a trip and now
\* stands at its dropoff A1, in Zone-A.
C27_Witness ==
  \E d \in DOMAIN drivers :
    /\ \E k \in 1..Len(operationStack) :
         /\ operationStack[k].operationType = "create_driver"
         /\ operationStack[k].createdEntityId = d
         /\ operationStack[k].description[4] = "C1"
    /\ drivers[d].totalTrips = 1
    /\ drivers[d].currentLocation = "A1"
    /\ drivers[d].zone = "Zone-A"

\* -------------------------------------------------------------------- C28

\* C28: a resetRideShareSystem step leaves the driver, rider and trip stores
\* and the operation log empty, the four counters at 0, the city equal to the
\* sample city and an instance in place that is not the one held before;
\* getRideShareSystem returns the instance held (constructing it only when
\* there is none) and writes nothing else; and the instance held changes
\* only by a reset, so every call until the next reset returns the same one.
C28_ResetClearsAndSingleton ==
  [][/\ ResetRideShareSystem =>
          /\ drivers' = EmptyMap /\ riders' = EmptyMap /\ trips' = EmptyMap
          /\ operationStack' = <<>>
          /\ counters' = <<0, 0, 0, 0>>
          /\ graph' = createSampleCity
          /\ systemInstance' # NULL /\ systemInstance' # systemInstance
     /\ GetRideShareSystem =>
          /\ systemInstance' # NULL
          /\ systemInstance # NULL => systemInstance' = systemInstance
          /\ UNCHANGED <<drivers, riders, trips, operationStack, counters, graph>>
     /\ (systemInstance # NULL /\ systemInstance' # systemInstance)
          => ResetRideShareSystem]_vars

\* C28 witness: the second instance, fresh from a reset, has issued its first
\* driver id: the counter restarted at 0 and the driver is number 1.
C28_Witness ==
  /\ systemInstance = 2
  /\ DOMAIN drivers = {1}
  /\ driverCounter = 1
  /\ operationCounter = 1
  /\ Len(operationStack) = 1
  /\ riders = EmptyMap /\ trips = EmptyMap

\* --------------------------------------------------------------- C29, C30

\* C29: an addNode call with an id the city already holds fails, and leaves
\* the city (the node, its adjacency list, the zone lists) as it was.
C29_DuplicateAddNodeFails ==
  [][\A n \in NodeInputs :
       (n[1] \in Known(graph) /\ AddNodeOf(n[1], n[2]))
         => (result' = "error" /\ graph' = graph)]_vars

Invalid(c, fromNode, toNode, distance) ==
  fromNode \notin Known(c) \/ toNode \notin Known(c) \/ distance < 0

\* C30: an addEdge call with an endpoint that is no node, or with a negative
\* weight, fails and leaves the adjacency lists and the edge list as they
\* were; any other addEdge call returns having put the road on the adjacency
\* lists of both endpoints, after which the shortest distance between the
\* two is the same in both directions.
C30_AddEdgeValidates ==
  [][\A e \in EdgeInputs :
       AddEdgeOf(e[1], e[2], e[3]) =>
         IF Invalid(graph, e[1], e[2], e[3])
         THEN /\ result' = "error"
              /\ graph'.adjacency = graph.adjacency
              /\ graph'.edges = graph.edges
         ELSE /\ result' = "ok"
              /\ <<e[2], e[3]>> \in Range(graph'.adjacency[e[1]])
              /\ <<e[1], e[3]>> \in Range(graph'.adjacency[e[2]])
              /\ calculateDistance(graph', e[1], e[2]) = calculateDistance(graph', e[2], e[1])]_vars

\* -------------------------------------------------------------------- C31

\* C31: no record's snapshot holds the tripHistory array of a live rider, and
\* a record of the log, once pushed, keeps its snapshot as it was for as long
\* as it stays in the log: no later operation (the push onto tripHistory in
\* completeTrip, the path assignment in assignTrip), before or after a
\* rollback, changes the tripHistory or path stored in it.
C31_SnapshotsOwnCopies ==
  [][/\ sharedHistory = {}
     /\ \A k \in 1..Min(Len(operationStack), Len(operationStack')) :
          operationStack'[k].operationId = operationStack[k].operationId
            => operationStack'[k].beforeSnapshot = operationStack[k].beforeSnapshot]_vars

\* C31 witness: the completion of the trip was rolled back, which restored
\* the rider, and the trip was completed again (operation 7 on a log of 6):
\* the rider's tripHistory now holds the trip while every record that
\* captured the rider, the start_trip record included, still holds the empty
\* history, and the assign_trip record still holds the empty path.
C31_Witness ==
  /\ operationCounter = 7 /\ Len(operationStack) = 6
  /\ Top(operationStack).operationType = "complete_trip"
  /\ riders[1].tripHistory = <<1>>
  /\ trips[1].path # <<>>
  /\ \A k \in 1..6 :
       /\ 1 \in DOMAIN operationStack[k].beforeSnapshot.riderSnapshots
            => operationStack[k].beforeSnapshot.riderSnapshots[1].tripHistory = <<>>
       /\ operationStack[k].operationType = "assign_trip"
            => operationStack[k].beforeSnapshot.tripSnapshots[1].path = <<>>
  /\ \E k \in 1..6 :
       /\ operationStack[k].operationType = "start_trip"
       /\ 1 \in DOMAIN operationStack[k].beforeSnapshot.riderSnapshots

\* -------------------------------------------------------------------- C32

\* C32: driver selection for a pickup location that is no node of the city
\* does not end in the result it gives when no driver is available (null),
\* and a getTripEstimate call for such a pickup fails with an error.
C32_UnknownPickupFails ==
  [][/\ findBestDriver(NoSuchLocation) # <<>>
     /\ \A dropoffLocation \in DropoffLocations :
          GetTripEstimateOf(NoSuchLocation, dropoffLocation) => result' = "error"]_vars

\* -------------------------------------------------------------------- C33

\* C33: a rollbackLast whose most recent record is the completion of a trip
\* does not revert the completion: the trip stays completed and the driver
\* and the rider keep what the completion credited them.
C33_CompletionNotRolledBack ==
  [][(/\ operationStack # <<>>
      /\ Top(operationStack).operationType = "complete_trip"
      /\ RollbackLast)
       => /\ trips' = trips
          /\ trips[Top(operationStack).affectedTripIds[1]].state = "completed"
          /\ drivers' = drivers
          /\ riders' = riders]_vars

\* -------------------------------------------------------------------- C34

\* The n most recent records of the log as descriptors, most recent first.
MostRecent(n) ==
  [i \in 1..n |-> descriptor(operationStack[Len(operationStack) + 1 - i])]

\* C34: for every count >= 0, 0 included, getOperationHistory(count) returns
\* the min(count, log length) most recent records of the log, most recent
\* first, and so never more than count entries; canRollback() is true exactly
\* when getOperationCount() is above 0.
C34_HistoryWindow ==
  [][/\ \A count \in HistoryCounts :
          GetOperationHistoryOf(count) =>
            /\ getOperationHistory(count) = MostRecent(Min(count, Len(operationStack)))
            /\ Len(getOperationHistory(count)) <= count
     /\ canRollback <=> getOperationCount > 0]_vars

====
